---- MODULE Spec2Model ----
(***************************************************************************)
(* bigarray: the memory-mapped array store (bigarray/mmap_array.py).       *)
(*                                                                         *)
(* The state is one Python process: the module-level writer registry, the  *)
(* MmapArrayWriter objects the process has made, and the files they work   *)
(* on.  A file is what a reader can see of it: the header's dtype and      *)
(* shape and the rows after the aligned offset.  Files live in inodes, so  *)
(* that a path removed while a writer still holds it open (os.remove in    *)
(* __init__) keeps its content for that writer alone.                      *)
(***************************************************************************)
EXTENDS Integers, Sequences, FiniteSets, TLC

\* ------------------------------------------------------------------ bounds
MaxRows == 3        \* no file grows beyond this many rows
MaxObjects == 2     \* MmapArrayWriter objects the process creates

\* ------------------------------------------------------- program constants
MAX_OPEN_MMAP == 120

\* ------------------------------------------------------------ input domains
Paths == {"p1", "p2"}
DTypes == {"float64"}
Trails == {"t5", "t8"}                 \* trailing shapes, shape[1:]
Vals == {1, 2}                         \* a written row; 0 is a zero-filled row
None == "None"                         \* an attribute or a dtype that is None
Absent == <<>>                         \* a shape or start_position argument that is None
Leads == {-1, 0, 2}                    \* shape[0] given at creation (-1: None or negative)
\* start_position arguments of write: None, or <<p>> for the integer p
StartPositions == {Absent, <<-1>>, <<0>>, <<2>>}

\* the shape/dtype arguments of the constructor: a shape is <<shape[0], shape[1:]>>
OpenShapes == {Absent} \cup { <<l, "t5">> : l \in Leads } \cup { <<0, "t8">> }
OpenDTypes == {None} \cup DTypes

\* the arrays given to write: a block has a trailing shape and its rows
Block(t, r) == [trail |-> t, rows |-> r]
Blocks == { Block("t5", <<1>>), Block("t5", <<2, 1>>), Block("t5", <<>>),
            Block("t8", <<2>>) }
Batches == { <<b>> : b \in Blocks } \cup
           { <<Block("t5", <<1>>), Block("t5", <<2, 1>>)>>,
             <<Block("t5", <<2, 1>>), Block("t5", <<1>>)>>,
             <<Block("t8", <<2>>), Block("t5", <<1>>)>>,
             <<Block("t5", <<1>>), Block("t8", <<2>>)>>,
             <<Block("t5", <<>>), Block("t5", <<2, 1>>)>> }

Objects == 1..MaxObjects
\* files that exist at one time: linked, or unlinked and still held open
Inodes == 1..(MaxObjects + 1)

VARIABLES
  INSTANCES_WRITER,  \* _INSTANCES_WRITER: path -> object, 0 when the path has no entry
  objs,              \* the MmapArrayWriter objects and their attributes
  fs,                \* directory: path -> inode, 0 when no file is at the path
  disk,              \* inode -> file content
  last,              \* the call that made the last step, and how it ended
  sess,              \* history: per path, what its latest writer was opened on
                     \* and the rows appended through it since
  registry,          \* a process that opens many paths: the keys of _INSTANCES_WRITER
  aligned,           \* a dtype's item size, a row count, and the data offsets
                     \* _aligned_memmap_offset gave for them
  PROXY_DICT,        \* _PROXY_DICT: path -> the manager's dict of the path
  pw,                \* the attributes PointerArrayWriter adds to a writer
  ih,                \* history of an indexed file: the block last written for
                     \* each key, the keys whose rows no later write touched,
                     \* the index as of the writer's last flush, and how many
                     \* trailers the file was given
  wk,                \* worker processes that write into one file, each through
                     \* its copy of the writer: the job of each and how far it is
  sh,                \* the holders of one shared index, each in its own
                     \* process: their locks, where each one is in update or in
                     \* the read of flush, how many merges were made, the range
                     \* the latest merge of each key gave it, and every mapping
                     \* the manager's dict has been
  tr,                \* history of a state transfer: the block last written for
                     \* each key, the rows written through each handle, the
                     \* handle each copy was made from, whether a copy wrote
                     \* over rows already written through its original, and
                     \* the trailers the file was given
  rd,                \* an indexed reader: whether it is open, the file and the row
                     \* count it mapped, and its mapping now and as decoded at its
                     \* open
  hd,                \* the header of one store, in bytes: whether the store has a
                     \* writer, its dtype, row count and number of trailing
                     \* dimensions, the size of the blob the last call would write
                     \* and of the blob in the file, and whether a header write
                     \* went past the data offset
  pr                 \* the processes of a pool that each open the one path: the
                     \* file as the system has it, where each process is in its
                     \* constructor call and its write, and whether an open has
                     \* emptied a file that had content

vars == <<INSTANCES_WRITER, objs, fs, disk, last, sess, registry, aligned,
          PROXY_DICT, pw, ih, sh, wk, tr, rd, hd, pr>>

\* what the methods of one store leave alone
beside_store == <<registry, aligned, PROXY_DICT, pw, ih, sh, wk, tr, rd, hd, pr>>

\* ---------------------------------------------------------------- values
NoFile == [dtype |-> None, rows |-> 0, trail |-> None, body |-> <<>>]
NoData == [ino |-> 0, rows |-> 0, trail |-> None, dtype |-> None]
\* an object nobody has made yet / attributes not yet assigned
NoObject == [alloc |-> FALSE, path |-> None, is_closed |-> "unset",
             start_position |-> 0, file |-> 0, data |-> NoData]

St == [reg |-> INSTANCES_WRITER, objs |-> objs, fs |-> fs, disk |-> disk]

Max(a, b) == IF a >= b THEN a ELSE b
Zeros(n) == [i \in 1..n |-> 0]
RECURSIVE SumRows(_)
SumRows(arrays) ==
  IF arrays = <<>> THEN 0 ELSE Len(Head(arrays).rows) + SumRows(Tail(arrays))

\* ------------------------------------------------------ operating system
\* inodes some path or some open file object or mapping still refers to
Referenced(st) ==
  { st.fs[p] : p \in Paths } \cup { st.objs[h].file : h \in Objects }
    \cup { st.objs[h].data.ino : h \in Objects }

\* inodes whose content can still be read: through a path or through a mapping
Readable(st) ==
  { st.fs[p] : p \in Paths } \cup { st.objs[h].data.ino : h \in Objects }

\* an inode with no link and no open descriptor or mapping is freed; the
\* content of an unlinked inode that only file objects without a mapping hold
\* is kept by the system but nothing reads it again, and it is not recorded
Reclaim(st) ==
  [st EXCEPT !.disk = [i \in Inodes |->
                          IF i \in Readable(st) THEN st.disk[i] ELSE NoFile]]

FreeInodes(st) == Inodes \ Referenced(st)
FreshInode(st) == CHOOSE i \in FreeInodes(st) : \A j \in FreeInodes(st) : i <= j

\* np.memmap(f, shape=..., mode='r+'): a file shorter than offset + rows is
\* extended with zero bytes; a longer one is left alone
memmap(body, rows) ==
  IF Len(body) >= rows THEN body ELSE body \o Zeros(rows - Len(body))

\* -------------------------------------------------------------- the reader
\* MmapArray(path): the header's dtype and shape, and the rows mapped at the
\* aligned offset
MmapArray(st, p) ==
  IF st.fs[p] = 0 THEN [res |-> "FileNotFoundError", rows |-> 0, data |-> <<>>,
                        dtype |-> None, trail |-> None]
  ELSE LET f == st.disk[st.fs[p]]
       IN [res |-> "ok", rows |-> f.rows,
           data |-> SubSeq(memmap(f.body, f.rows), 1, f.rows),
           dtype |-> f.dtype, trail |-> f.trail]

\* ---------------------------------------------------------- the registry
get_total_opened_mmap(st) == Cardinality({ p \in Paths : st.reg[p] # 0 })

FreeObjects(st) == { h \in Objects : ~st.objs[h].alloc }
NewObject(st) == CHOOSE h \in FreeObjects(st) : \A k \in FreeObjects(st) : h <= k

\* MmapArrayWriter.__new__(cls, path): the object the constructor call works on
new(st, p) ==
  IF st.reg[p] # 0 /\ st.objs[st.reg[p]].is_closed = "unset"
  THEN \* obj.is_closed reads an attribute a failed __init__ never set
       [res |-> "AttributeError", h |-> 0, isnew |-> FALSE, st |-> st]
  ELSE IF st.reg[p] # 0 /\ st.objs[st.reg[p]].is_closed = "no"
  THEN [res |-> "ok", h |-> st.reg[p], isnew |-> FALSE, st |-> st]
  ELSE IF get_total_opened_mmap(st) > MAX_OPEN_MMAP
  THEN [res |-> "RuntimeError", h |-> 0, isnew |-> FALSE, st |-> st]
  ELSE LET h == NewObject(st)
       IN [res |-> "ok", h |-> h, isnew |-> TRUE,
           st |-> [st EXCEPT !.reg[p] = h,
                             !.objs[h] = [NoObject EXCEPT !.alloc = TRUE]]]

\* MmapArrayWriter.__init__(self, path, shape, dtype, remove_exist)
init(st, h, p, shape, dtype, remove_exist) ==
  LET st1 == IF remove_exist /\ st.fs[p] # 0 THEN [st EXCEPT !.fs[p] = 0] ELSE st
  IN IF st1.fs[p] # 0
     THEN \* read exist file: dtype and shape come from the header
          LET ino == st1.fs[p]
              f == st1.disk[ino]
          IN [res |-> "ok", created |-> FALSE,
              st |-> Reclaim([st1 EXCEPT
                  !.objs[h].start_position = f.rows,
                  !.objs[h].file = ino,
                  !.objs[h].path = p,
                  !.objs[h].data = [ino |-> ino, rows |-> f.rows,
                                    trail |-> f.trail, dtype |-> f.dtype],
                  !.objs[h].is_closed = "no",
                  !.disk[ino].body = memmap(f.body, f.rows)])]
     ELSE IF dtype = None \/ shape = Absent
     THEN [res |-> "Exception", created |-> FALSE,
           st |-> [st1 EXCEPT !.objs[h].start_position = 0]]
     ELSE \* create new file: the old file object and mapping of self, if any,
          \* are dropped when the attributes are assigned
          LET lead == IF shape[1] < 0 THEN 0 ELSE shape[1]
              st2 == [st1 EXCEPT !.objs[h].file = 0, !.objs[h].data = NoData]
              ino == FreshInode(st2)
          IN [res |-> "ok", created |-> TRUE,
              st |-> Reclaim([st2 EXCEPT
                  !.fs[p] = ino,
                  !.disk[ino] = [dtype |-> dtype, rows |-> lead,
                                 trail |-> shape[2],
                                 body |-> memmap(<<>>, lead)],
                  !.objs[h].start_position = 0,
                  !.objs[h].file = ino,
                  !.objs[h].path = p,
                  !.objs[h].data = [ino |-> ino, rows |-> lead,
                                    trail |-> shape[2], dtype |-> dtype],
                  !.objs[h].is_closed = "no"])]

\* MmapArrayWriter(path, shape, dtype, remove_exist): type.__call__ runs
\* __new__ and then __init__ on the object __new__ returned
construct(st, p, shape, dtype, remove_exist) ==
  LET n == new(st, p)
  IN IF n.res # "ok" THEN [res |-> n.res, h |-> 0, isnew |-> FALSE, st |-> st,
                           created |-> FALSE, fopens |-> 0, mmaps |-> 0]
     ELSE LET i == init(n.st, n.h, p, shape, dtype, remove_exist)
          IN [res |-> i.res, h |-> n.h, isnew |-> n.isnew, st |-> i.st,
              created |-> i.created,
              \* f = open(path, ...) and np.memmap(f, ...) of __init__
              fopens |-> IF i.res = "ok" THEN 1 ELSE 0,
              mmaps |-> IF i.res = "ok" THEN 1 ELSE 0]

\* ------------------------------------------------------------ the writer
\* MmapArrayWriter.flush
flush(st, h) ==
  IF st.objs[h].data = NoData
  THEN [res |-> "AttributeError", st |-> st]
  ELSE [res |-> "ok", st |-> st]

\* MmapArrayWriter.close
close(st, h) ==
  IF st.objs[h].is_closed = "yes" THEN [res |-> "ok", st |-> st]
  ELSE LET o == st.objs[h]
           st1 == [st EXCEPT !.objs[h].is_closed = "yes",
                             !.reg = [p \in Paths |-> IF p = o.path THEN 0 ELSE st.reg[p]]]
           fl == flush(st1, h)
       IN IF fl.res # "ok" THEN [res |-> fl.res, st |-> st1]
          ELSE [res |-> "ok",
                st |-> Reclaim([fl.st EXCEPT !.objs[h].data = NoData,
                                             !.objs[h].file = 0])]

\* _resize without its check of the new length: a smaller length is taken
\* like a larger one
resize_anyLength(st, h, new_length) ==
  LET o == st.objs[h]
      old_length == o.data.rows
  IN IF o.file = 0 \/ o.data = NoData
     THEN [res |-> "AttributeError", st |-> st, grown |-> 0]
     ELSE IF new_length = old_length
     THEN [res |-> "ok", st |-> st, grown |-> 0]
     ELSE LET st1 == [st EXCEPT !.disk[o.file].rows = new_length,
                                !.disk[o.file].dtype = o.data.dtype,
                                !.disk[o.file].trail = o.data.trail,
                                !.objs[h].data = NoData]
          IN IF st1.fs[o.path] = 0
             THEN [res |-> "FileNotFoundError", st |-> Reclaim(st1), grown |-> 0]
             ELSE LET ino == st1.fs[o.path]
                  IN [res |-> "ok", grown |-> 1,
                      st |-> Reclaim([st1 EXCEPT
                          !.objs[h].file = ino,
                          !.objs[h].data = [ino |-> ino, rows |-> new_length,
                                            trail |-> o.data.trail,
                                            dtype |-> o.data.dtype],
                          !.disk[ino].body = memmap(st1.disk[ino].body, new_length)])]

\* MmapArrayWriter._resize(new_length)
resize(st, h, new_length) ==
  LET o == st.objs[h]
      old_length == o.data.rows
  IN IF o.file = 0 \/ o.data = NoData
     THEN [res |-> "AttributeError", st |-> st, grown |-> 0]
     ELSE IF new_length < old_length
     THEN [res |-> "ValueError", st |-> st, grown |-> 0]
     ELSE IF new_length = old_length
     THEN [res |-> "ok", st |-> st, grown |-> 0]
     ELSE \* rewrite the header through self._file, close the old mapping
          LET st1 == [st EXCEPT !.disk[o.file].rows = new_length,
                                !.disk[o.file].dtype = o.data.dtype,
                                !.disk[o.file].trail = o.data.trail,
                                !.objs[h].data = NoData]
          IN IF st1.fs[o.path] = 0
             THEN \* open(self.path, 'rb+') finds no file
                  [res |-> "FileNotFoundError", st |-> Reclaim(st1), grown |-> 0]
             ELSE LET ino == st1.fs[o.path]
                  IN [res |-> "ok", grown |-> 1,
                      st |-> Reclaim([st1 EXCEPT
                          !.objs[h].file = ino,
                          !.objs[h].data = [ino |-> ino, rows |-> new_length,
                                            trail |-> o.data.trail,
                                            dtype |-> o.data.dtype],
                          !.disk[ino].body = memmap(st1.disk[ino].body, new_length)])]

\* write without its filter on the trailing shape
Accepted_all(arrays, trail) == arrays

\* the accepted arrays of write: those whose shape[1:] is the store's
Accepted(arrays, trail) == SelectSeq(arrays, LAMBDA a : a.trail = trail)

\* a write that ignores the cursor: None starts at row 0
ResolveStart_fromZero(o, start_position) ==
  IF start_position = Absent THEN 0
  ELSE IF start_position[1] < 0 THEN o.data.rows - start_position[1]
  ELSE start_position[1]

\* start_position as write resolves it
ResolveStart(o, start_position) ==
  IF start_position = Absent THEN o.start_position
  ELSE IF start_position[1] < 0 THEN o.data.rows - start_position[1]
  ELSE start_position[1]

\* data[start:start + n] = a
CopyRows(body, start, a) ==
  [i \in 1..Len(body) |->
     IF i > start /\ i <= start + Len(a) THEN a[i - start] ELSE body[i]]

\* the copy loop without start_position += a.shape[0]
RECURSIVE CopyAll_noAdvance(_, _, _)
CopyAll_noAdvance(body, start, arrays) ==
  IF arrays = <<>> THEN [body |-> body, start |-> start]
  ELSE CopyAll_noAdvance(CopyRows(body, start, Head(arrays).rows),
                         start, Tail(arrays))

\* for a in accepted_arrays: copy a, advance start_position
RECURSIVE CopyAll(_, _, _)
CopyAll(body, start, arrays) ==
  IF arrays = <<>> THEN [body |-> body, start |-> start]
  ELSE CopyAll(CopyRows(body, start, Head(arrays).rows),
               start + Len(Head(arrays).rows), Tail(arrays))

\* write that moves the cursor whether or not start_position is given
write_movesCursor(st, h, arrays, start_position) ==
  LET o == st.objs[h]
      accepted_arrays == Accepted(arrays, o.data.trail)
      add_size == SumRows(accepted_arrays)
      start == ResolveStart(o, start_position)
      add_length == add_size - (o.data.rows - start)
      fail(e) == [res |-> e, st |-> st, grown |-> 0, dropped |-> 0]
  IN IF o.is_closed = "yes" THEN fail("RuntimeError_closed")
     ELSE IF o.data = NoData THEN fail("AttributeError")
     ELSE IF Len(accepted_arrays) = 0 THEN fail("RuntimeError_no_array")
     ELSE LET r == IF add_length > 0 THEN resize(st, h, o.data.rows + add_length)
                   ELSE [res |-> "ok", st |-> st, grown |-> 0, dropped |-> 0]
          IN IF r.res # "ok"
             THEN [res |-> r.res, st |-> r.st, grown |-> r.grown, dropped |-> 0]
             ELSE LET ino == r.st.objs[h].data.ino
                      c == CopyAll(r.st.disk[ino].body, start, accepted_arrays)
                  IN [res |-> "ok", grown |-> r.grown,
                      dropped |-> Len(arrays) - Len(accepted_arrays),
                      st |-> [r.st EXCEPT
                          !.disk[ino].body = c.body,
                          !.objs[h].start_position = c.start]]

\* MmapArrayWriter.write(arrays, start_position)
write(st, h, arrays, start_position) ==
  LET o == st.objs[h]
      accepted_arrays == Accepted(arrays, o.data.trail)
      add_size == SumRows(accepted_arrays)
      start == ResolveStart(o, start_position)
      add_length == add_size - (o.data.rows - start)
      fail(e) == [res |-> e, st |-> st, grown |-> 0, dropped |-> 0]
  IN IF o.is_closed = "yes" THEN fail("RuntimeError_closed")
     ELSE IF o.data = NoData THEN fail("AttributeError")
     ELSE IF Len(accepted_arrays) = 0 THEN fail("RuntimeError_no_array")
     ELSE LET r == IF add_length > 0 THEN resize(st, h, o.data.rows + add_length)
                   ELSE [res |-> "ok", st |-> st, grown |-> 0, dropped |-> 0]
          IN IF r.res # "ok"
             THEN [res |-> r.res, st |-> r.st, grown |-> r.grown, dropped |-> 0]
             ELSE LET ino == r.st.objs[h].data.ino
                      c == CopyAll(r.st.disk[ino].body, start, accepted_arrays)
                  IN [res |-> "ok", grown |-> r.grown,
                      dropped |-> Len(arrays) - Len(accepted_arrays),
                      st |-> [r.st EXCEPT
                          !.disk[ino].body = c.body,
                          !.objs[h].start_position =
                             IF start_position = Absent THEN c.start ELSE @]]

\* ---------------------------------------------------------------- actions
\* What the state records of a writer without a mapping (closed, or left
\* without self._data by a failed _resize): every method of such a writer
\* raises or returns before it reads _start_position, so its value is not
\* recorded.
Forget(st) ==
  [st EXCEPT !.objs = [h \in Objects |->
     IF st.objs[h].data = NoData
     THEN [st.objs[h] EXCEPT !.start_position = 0] ELSE st.objs[h]]]

Normal(st) == Forget(Reclaim(st))

Set(st) ==
  \E n \in {Normal(st)} :
     /\ INSTANCES_WRITER' = n.reg
     /\ objs' = n.objs
     /\ fs' = n.fs
     /\ disk' = n.disk

\* last: the method called, how it ended, the object a constructor call
\* worked on and whether __new__ found it in the registry, and how many
\* open(path), np.memmap(...) and growing _resize calls the method made
Called(op, res, h, reused, fopens, mmaps, resizes, dropped) ==
  last' = [op |-> op, res |-> res, h |-> h, reused |-> reused,
           fopens |-> fopens, mmaps |-> mmaps, resizes |-> resizes,
           dropped |-> dropped]

\* ---- history of the latest writer of a path
NoSess == [state |-> "none", pure |-> FALSE, h |-> 0, fresh |-> FALSE,
           obj0 |-> NoObject, file0 |-> NoFile, app |-> <<>>, nb |-> 0]
Spoiled(se) == [NoSess EXCEPT !.state = se.state, !.h = se.h]

\* the rows of the arrays whose trailing shape is t, in order
RECURSIVE RowsOf(_, _)
RowsOf(arrays, t) ==
  IF arrays = <<>> THEN <<>>
  ELSE (IF Head(arrays).trail = t THEN Head(arrays).rows ELSE <<>>)
         \o RowsOf(Tail(arrays), t)

\* the session of the writer h, if h is the live writer its path's history follows
Mine(h) == objs[h].path # None /\ sess[objs[h].path].h = h
              /\ sess[objs[h].path].state = "live"

Touch(h, se) ==
  sess' = IF Mine(h) THEN [sess EXCEPT ![objs[h].path] = se] ELSE sess

\* the objects the caller holds: those a constructor call returned
Held == { h \in Objects : objs[h].alloc /\ objs[h].is_closed # "unset" }

Open(p, shape, dtype, remove_exist) ==
  /\ INSTANCES_WRITER[p] = 0 => FreeObjects(St) # {}
  /\ FreeInodes(St) # {}
  /\ \E c \in {construct(St, p, shape, dtype, remove_exist)} :
     LET s == Normal(c.st)
     IN /\ Set(c.st)
        /\ Called("open", c.res, c.h, c.h # 0 /\ ~c.isnew, c.fopens, c.mmaps, 0, 0)
        /\ UNCHANGED beside_store
        /\ sess' = IF c.res = "ok"
                   THEN [sess EXCEPT ![p] =
                           [state |-> "live", pure |-> TRUE, h |-> c.h,
                            fresh |-> c.created, obj0 |-> s.objs[c.h],
                            file0 |-> s.disk[s.objs[c.h].data.ino],
                            app |-> <<>>, nb |-> 0]]
                   ELSE IF c.h # 0
                   THEN [sess EXCEPT ![p] = Spoiled(@)]
                   ELSE sess

\* A writer without a mapping fails before it looks at its arguments: one
\* argument stands for all.  The file never grows beyond MaxRows.
Write(h, arrays, start_position) ==
  /\ h \in Held
  /\ IF objs[h].data = NoData
     THEN arrays = <<Block("t5", <<1>>)>> /\ start_position = Absent
     ELSE ResolveStart(objs[h], start_position)
            + SumRows(Accepted(arrays, objs[h].data.trail)) <= MaxRows
  /\ \E w \in {write(St, h, arrays, start_position)} :
     LET se == sess[objs[h].path]
     IN /\ Set(w.st)
        /\ Called("write", w.res, 0, FALSE, w.grown, w.grown, w.grown, w.dropped)
        /\ UNCHANGED beside_store
        /\ Touch(h, IF w.res = "ok" /\ start_position = Absent /\ se.pure
                    THEN [se EXCEPT
                            !.app = @ \o RowsOf(arrays, objs[h].data.trail),
                            !.nb = IF @ < 2 THEN @ + 1 ELSE @]
                    ELSE Spoiled(se))

Resize(h, new_length) ==
  /\ h \in Held
  /\ objs[h].data = NoData => new_length = 0
  /\ \E r \in {resize(St, h, new_length)} :
        /\ Set(r.st)
        /\ Called("resize", r.res, 0, FALSE, r.grown, r.grown, r.grown, 0)
        /\ UNCHANGED beside_store
        /\ Touch(h, Spoiled(sess[objs[h].path]))

Flush(h) ==
  /\ h \in Held
  /\ \E f \in {flush(St, h)} :
        /\ Set(f.st)
        /\ Called("flush", f.res, 0, FALSE, 0, 0, 0, 0)
        /\ UNCHANGED beside_store
        /\ UNCHANGED sess

Close(h) ==
  /\ h \in Held
  /\ \E c \in {close(St, h)} :
     LET se == sess[objs[h].path]
     IN /\ Set(c.st)
        /\ Called("close", c.res, 0, FALSE, 0, 0, 0, 0)
        /\ UNCHANGED beside_store
        /\ Touch(h, IF c.res = "ok" /\ se.pure
                    THEN [se EXCEPT !.state = "closed"]
                    ELSE [Spoiled(se) EXCEPT !.state = "closed"])

StoreInit ==
  /\ INSTANCES_WRITER = [p \in Paths |-> 0]
  /\ objs = [h \in Objects |-> NoObject]
  /\ fs = [p \in Paths |-> 0]
  /\ disk = [i \in Inodes |-> NoFile]
  /\ last = [op |-> "none", res |-> "ok", h |-> 0, reused |-> FALSE,
             fopens |-> 0, mmaps |-> 0, resizes |-> 0, dropped |-> 0]
  /\ sess = [p \in Paths |-> NoSess]

NoAligned == [itemsize |-> 1, rows |-> 0, at_open |-> 0, at_resize |-> 0]

\* the keys of the index, and an index: key -> (start, end), Absent for a key
\* it does not have
Keys == {"a", "b"}
NoKeys == [k \in Keys |-> Absent]
\* a path _PROXY_DICT has no dict for
NoDict == [has |-> FALSE, d |-> NoKeys]
\* a PointerArrayWriter before _init: neither attribute is set
NoPointer == [is_indices_saved |-> "unset", indices |-> "unset"]

\* an indexed file nothing was written to
NoHistory == [block |-> NoKeys, clean |-> {}, since |-> NoDict, trailers |-> 0]

\* the processes that hold the shared index of one path
MaxHolders == 2
Holders == 1..MaxHolders
\* a holder that is in no call
Idle == [pc |-> "idle", items |-> NoKeys, keys |-> <<>>, snapshot |-> NoKeys]
NoHolders == [lock_of |-> [p \in Holders |-> 1], lock |-> [l \in Holders |-> 0],
              at |-> [p \in Holders |-> Idle], merges |-> 0, latest |-> NoKeys,
              past |-> {}, written |-> <<>>]

\* the worker processes of a pool
MaxWorkers == 2
Workers == 1..MaxWorkers
NoJob == [start |-> 0, arrays |-> <<>>]
Ready == [pc |-> "ready", start |-> 0, rows |-> <<>>]
NoWorkers == [jobs |-> [w \in Workers |-> NoJob], at |-> [w \in Workers |-> Ready]]

\* handles of which none is a copy and through which nothing was written
NoTransfer == [block |-> NoKeys, rows |-> [h \in Objects |-> {}],
               from |-> [h \in Objects |-> 0], overlap |-> FALSE, trailers |-> 0]

\* no reader yet
NoReader == [open |-> FALSE, ino |-> 0, rows |-> 0, indices |-> NoKeys,
             at_open |-> NoKeys]

\* a path with no file
NoHeader == [state |-> "none", dtype |-> [name |-> 0, itemsize |-> 1], rows |-> 0,
             ntrail |-> 0, asked |-> 0, blob |-> 0, reached |-> FALSE]

\* no file at the path of the pool, every process before its job
Starting == [pc |-> "start", start |-> 0, rows |-> <<>>]
NoProcs == [file |-> [header |-> FALSE, rows |-> 0, body |-> <<>>],
            at |-> [w \in Workers |-> Starting],
            truncated |-> FALSE]

\* the histories of the other specifications, idle
ElseIdle ==
  /\ pr = NoProcs
  /\ hd = NoHeader
  /\ rd = NoReader
  /\ tr = NoTransfer

IndexIdle ==
  /\ PROXY_DICT = [p \in Paths |-> NoDict]
  /\ pw = [h \in Objects |-> NoPointer]
  /\ ih = NoHistory
  /\ sh = NoHolders
  /\ wk = NoWorkers
  /\ ElseIdle

Init ==
  /\ StoreInit
  /\ registry = {}
  /\ aligned = NoAligned
  /\ IndexIdle

\* One store: every method of the writer, on one path
StorePaths == {"p1"}

Next ==
  \/ \E p \in StorePaths, shape \in OpenShapes, dtype \in OpenDTypes, r \in BOOLEAN :
        Open(p, shape, dtype, r)
  \/ \E h \in Objects, arrays \in Batches, sp \in StartPositions : Write(h, arrays, sp)
  \/ \E h \in Objects, n \in 0..MaxRows : Resize(h, n)
  \/ \E h \in Objects : Flush(h)
  \/ \E h \in Objects : Close(h)

Spec == Init /\ [][Next]_vars

\* ------------------------------------------------- the ceiling of writers
\* A process that opens and closes writers on many paths.  Only the number
\* of entries of _INSTANCES_WRITER decides what __new__ does, so the paths
\* are numbered, a new writer takes the first path that has no entry and
\* the writer closed is the one opened last.
ManyPaths == 1..(MAX_OPEN_MMAP + 2)

\* MmapArrayWriter.__new__, as far as the registry goes
new_entry(reg, path) ==
  IF path \in reg
  THEN [res |-> "ok", reg |-> reg, reused |-> TRUE]
  ELSE IF Cardinality(reg) > MAX_OPEN_MMAP
  THEN [res |-> "RuntimeError", reg |-> reg, reused |-> FALSE]
  ELSE [res |-> "ok", reg |-> reg \cup {path}, reused |-> FALSE]

\* MmapArrayWriter.close, as far as the registry goes
del_entry(reg, path) == reg \ {path}

beside_registry == <<INSTANCES_WRITER, objs, fs, disk, sess, aligned, PROXY_DICT,
                     pw, ih, sh, wk, tr, rd, hd, pr>>

OpenOne(path) ==
  /\ path \in registry \/ \A q \in ManyPaths : q < path => q \in registry
  /\ \E n \in {new_entry(registry, path)} :
        /\ registry' = n.reg
        /\ Called("open", n.res, 0, n.reused, 0, 0, 0, 0)
  /\ UNCHANGED beside_registry

CloseOne(path) ==
  /\ path \in registry
  /\ \A q \in registry : q <= path
  /\ registry' = del_entry(registry, path)
  /\ Called("close", "ok", 0, FALSE, 0, 0, 0, 0)
  /\ UNCHANGED beside_registry

NextCeiling ==
  \/ \E path \in ManyPaths : OpenOne(path)
  \/ \E path \in ManyPaths : CloseOne(path)

SpecCeiling == Init /\ [][NextCeiling]_vars

\* ------------------------------------------------------ the data offset
HEADER_LEN == 8
HEADER_SIZE_LENGTH == 8
MAXIMUM_HEADER_SIZE == 486
MaxItemSize == 32
ItemSizes == 1..MaxItemSize

\* np.ceil(a / b) for positive integers
ceil(a, b) == IF a % b = 0 THEN a \div b ELSE (a \div b) + 1

\* a data offset rounded down instead of up
aligned_memmap_offset_floor(type_size) ==
  LET header_size == HEADER_LEN + HEADER_SIZE_LENGTH + MAXIMUM_HEADER_SIZE
  IN (header_size \div type_size) * type_size

\* _aligned_memmap_offset(dtype), type_size being np.dtype(dtype).itemsize
aligned_memmap_offset(type_size) ==
  LET header_size == HEADER_LEN + HEADER_SIZE_LENGTH + MAXIMUM_HEADER_SIZE
      n == ceil(header_size, type_size)
  IN n * type_size

beside_aligned == <<INSTANCES_WRITER, objs, fs, disk, last, sess, registry,
                    PROXY_DICT, pw, ih, sh, wk, tr, rd, hd, pr>>

\* a store of any dtype and row count
AlignInit ==
  /\ StoreInit
  /\ registry = {}
  /\ aligned \in [itemsize : ItemSizes, rows : 0..MaxRows, at_open : {0}, at_resize : {0}]
  /\ IndexIdle

\* __init__ maps the data at _aligned_memmap_offset(dtype)
MapAtOpen ==
  /\ aligned.at_open = 0
  /\ aligned' = [aligned EXCEPT !.at_open = aligned_memmap_offset(aligned.itemsize)]
  /\ UNCHANGED beside_aligned

\* _resize maps the data again, one row longer, at _aligned_memmap_offset(dtype)
MapAtResize ==
  /\ aligned.at_open # 0
  /\ aligned.rows < MaxRows + 1
  /\ aligned' = [aligned EXCEPT !.rows = @ + 1,
                                 !.at_resize = aligned_memmap_offset(aligned.itemsize)]
  /\ UNCHANGED beside_aligned

NextAlign == MapAtOpen \/ MapAtResize

SpecAlign == AlignInit /\ [][NextAlign]_vars

\* ------------------------------------------------------ the named index
\* An indexed file, after the data offset, is a sequence of units: a row of
\* the array is one unit (0, or a value of Vals), and so is every item of a
\* trailer: the mark that opens a pickled dict, one item per key, and the
\* length that closes the trailer.  All units are integers, as all bytes are
\* bytes: what a unit means is decided by whoever reads it.
PICKLE == 99
ITEM == 100
Radix == MaxRows + 2
KeyNo(k) == IF k = "a" THEN 0 ELSE 1
KeyOf(n) == IF n = 0 THEN "a" ELSE "b"

\* one pickled item: key -> (start, end)
Item(k, r) == ITEM + KeyNo(k) * Radix * Radix + r[1] * Radix + r[2]
ItemKey(u) == KeyOf((u - ITEM) \div (Radix * Radix))
ItemRange(u) == << ((u - ITEM) % (Radix * Radix)) \div Radix, (u - ITEM) % Radix >>
IsItem(u) == u >= ITEM /\ u < ITEM + 2 * Radix * Radix

\* pickle.dumps(indices)
dumps(d) ==
  <<PICKLE>> \o (IF d["a"] # Absent THEN <<Item("a", d["a"])>> ELSE <<>>)
             \o (IF d["b"] # Absent THEN <<Item("b", d["b"])>> ELSE <<>>)

\* pickle.loads(blob)
loads(blob) ==
  IF Len(blob) = 0 \/ blob[1] # PICKLE
       \/ \E i \in 2..Len(blob) : ~IsItem(blob[i])
  THEN [res |-> "UnpicklingError", d |-> NoKeys]
  ELSE [res |-> "ok",
        d |-> [k \in Keys |->
                 IF \E i \in 2..Len(blob) : ItemKey(blob[i]) = k
                 THEN ItemRange(blob[CHOOSE i \in 2..Len(blob) :
                                        /\ ItemKey(blob[i]) = k
                                        /\ \A j \in 2..Len(blob) :
                                              ItemKey(blob[j]) = k => j <= i])
                 ELSE Absent]]

\* a trailer whose length counts its own 8 bytes too
trailer_lengthOfAll(d) == dumps(d) \o <<Len(dumps(d)) + 1>>

\* indices_data + size: the trailer flush appends
trailer(d) == dumps(d) \o <<Len(dumps(d))>>

\* seek(filesize - 8), read(8), seek(filesize - 8 - indices_size),
\* pickle.loads(read(indices_size)): the index at the end of a file
read_indices(body) ==
  LET filesize == Len(body)
      indices_size == IF filesize = 0 THEN 0 ELSE body[filesize]
  IN IF indices_size < 0 \/ indices_size > filesize - 1
     THEN [res |-> "UnpicklingError", d |-> NoKeys]
     ELSE loads(SubSeq(body, filesize - indices_size, filesize - 1))

\* the state of an indexed store
IS == [st |-> St, proxy |-> PROXY_DICT, pw |-> pw]

\* _SharedDictWriter(init_dict, path)
SharedDictWriter(proxy, init_dict, path) ==
  IF proxy[path].has THEN proxy
  ELSE [proxy EXCEPT ![path] = [has |-> TRUE, d |-> init_dict]]

\* an update that puts the items in the place of the dict
update_replace(d, items) == items

\* _SharedDictWriter.update(items)
update(d, items) == [k \in Keys |-> IF items[k] # Absent THEN items[k] ELSE d[k]]

\* _SharedDictWriter.dispose, on the first call
dispose(proxy, path) == [proxy EXCEPT ![path] = NoDict]

\* MmapArrayWriter._init(path, shape, dtype, remove_exist): the array-store open
MmapArrayWriter_init(st, h, p, shape, dtype, remove_exist) ==
  init(st, h, p, shape, dtype, remove_exist)

\* PointerArrayWriter._init(path, shape, dtype, remove_exist, indices=None)
pointer_init(is, h, p, shape, dtype, remove_exist) ==
  LET b == MmapArrayWriter_init(is.st, h, p, shape, dtype, remove_exist)
      is1 == [is EXCEPT !.st = b.st]
  IN IF b.res # "ok" THEN [res |-> b.res, is |-> is1, created |-> FALSE]
     ELSE LET is2 == [is1 EXCEPT !.pw[h].is_indices_saved = "no"]
              o == b.st.objs[h]
          IN IF o.start_position = 0 \/ o.data.rows = 0
             THEN [res |-> "ok", created |-> b.created,
                   is |-> [is2 EXCEPT !.pw[h].indices = "set",
                                      !.proxy = SharedDictWriter(@, NoKeys, p)]]
             ELSE LET r == read_indices(b.st.disk[o.file].body)
                  IN IF r.res # "ok"
                     THEN [res |-> r.res, is |-> is2, created |-> b.created]
                     ELSE [res |-> "ok", created |-> b.created,
                           is |-> [is2 EXCEPT !.pw[h].indices = "set",
                                              !.proxy = SharedDictWriter(@, r.d, p)]]

\* PointerArrayWriter(path, shape, dtype, remove_exist): __new__ gives the
\* live writer of the path or a new object, and a new object is set up by _init
pointer_construct(is, p, shape, dtype, remove_exist) ==
  LET n == new(is.st, p)
  IN IF n.res # "ok" THEN [res |-> n.res, h |-> 0, isnew |-> FALSE, is |-> is]
     ELSE IF ~n.isnew THEN [res |-> "ok", h |-> n.h, isnew |-> FALSE, is |-> is]
     ELSE LET i == pointer_init([is EXCEPT !.st = n.st, !.pw[n.h] = NoPointer],
                                n.h, p, shape, dtype, remove_exist)
          IN [res |-> i.res, h |-> n.h, isnew |-> TRUE, is |-> i.is]

\* the arrays given to the indexed write: a dict, as its items in order
Named(k, t, r) == [name |-> k, trail |-> t, rows |-> r]
NamedBatches ==
  { <<Named("a", "t5", <<1>>)>>, <<Named("b", "t5", <<2>>)>>,
    <<Named("a", "t8", <<1>>)>>,
    <<Named("a", "t5", <<1>>), Named("b", "t5", <<2>>)>> }
IndexStarts == {Absent, <<0>>}

\* the loop without start += a.shape[0]: every range begins at the start
RECURSIVE Ranges_sameStart(_, _, _)
Ranges_sameStart(accepted, start, indices) ==
  IF accepted = <<>> THEN indices
  ELSE Ranges_sameStart(Tail(accepted), start,
              [indices EXCEPT ![Head(accepted).name] =
                  <<start, start + Len(Head(accepted).rows)>>])

\* for name, a in zip(accepted_names, accepted_arrays):
\*   indices[name] = (start, start + a.shape[0]); start += a.shape[0]
RECURSIVE Ranges(_, _, _)
Ranges(accepted, start, indices) ==
  IF accepted = <<>> THEN indices
  ELSE Ranges(Tail(accepted), start + Len(Head(accepted).rows),
              [indices EXCEPT ![Head(accepted).name] =
                  <<start, start + Len(Head(accepted).rows)>>])

\* accepted_arrays, as the list write of the array store is given
Unnamed(accepted) == [i \in 1..Len(accepted) |->
                        Block(accepted[i].trail, accepted[i].rows)]

\* PointerArrayWriter.write(arrays, start_position)
pointer_write(is, h, arrays, start_position) ==
  LET is1 == [is EXCEPT !.pw[h].is_indices_saved = "no"]
      o == is.st.objs[h]
      start == ResolveStart(o, start_position)
      fail(e) == [res |-> e, is |-> is1, grown |-> 0, dropped |-> 0,
                  indices |-> NoKeys, start |-> start]
  IN IF arrays # <<>> /\ o.data = NoData THEN fail("AttributeError")
     ELSE LET accepted == SelectSeq(arrays, LAMBDA a : a.trail = o.data.trail)
              indices == Ranges(accepted, start, NoKeys)
          IN IF is1.pw[h].indices # "set" THEN fail("AttributeError")
             ELSE LET is2 == [is1 EXCEPT !.proxy[o.path].d = update(@, indices)]
                      w == write(is2.st, h, Unnamed(accepted), start_position)
                  IN [res |-> w.res, is |-> [is2 EXCEPT !.st = w.st],
                      grown |-> w.grown,
                      dropped |-> Len(arrays) - Len(accepted),
                      indices |-> indices, start |-> start]

\* with open(self.path, 'ab') as f: f.write(data)
append(st, p, data) ==
  IF st.fs[p] # 0 THEN [st EXCEPT !.disk[st.fs[p]].body = @ \o data]
  ELSE LET ino == FreshInode(st)
       IN [st EXCEPT !.fs[p] = ino, !.disk[ino] = [NoFile EXCEPT !.body = data]]

\* PointerArrayWriter.flush
pointer_flush(is, h) ==
  LET b == flush(is.st, h)
  IN IF b.res # "ok" THEN [res |-> b.res, is |-> is, appended |-> FALSE]
     ELSE IF is.pw[h].is_indices_saved = "unset"
     THEN [res |-> "AttributeError", is |-> is, appended |-> FALSE]
     ELSE IF is.pw[h].is_indices_saved = "yes"
     THEN [res |-> "ok", is |-> is, appended |-> FALSE]
     ELSE LET is1 == [is EXCEPT !.pw[h].is_indices_saved = "yes"]
              p == is.st.objs[h].path
          IN IF is.pw[h].indices # "set"
             THEN [res |-> "AttributeError", is |-> is1, appended |-> FALSE]
             ELSE [res |-> "ok", appended |-> TRUE,
                   is |-> [is1 EXCEPT !.st = append(@, p, trailer(is.proxy[p].d))]]

\* self._indices.dispose()
pointer_dispose(is, h) ==
  IF is.pw[h].indices = "unset" THEN [res |-> "AttributeError", is |-> is]
  ELSE IF is.pw[h].indices = "disposed" THEN [res |-> "ok", is |-> is]
  ELSE [res |-> "ok",
        is |-> [is EXCEPT !.pw[h].indices = "disposed",
                          !.proxy = dispose(@, is.st.objs[h].path)]]

\* close whose self.flush() is the flush of the array store: no trailer
pointer_close_plainFlush(is, h) ==
  LET o == is.st.objs[h]
  IN IF o.is_closed = "yes"
     THEN LET d == pointer_dispose(is, h)
          IN [res |-> d.res, is |-> d.is, appended |-> FALSE]
     ELSE LET c == close(is.st, h)
          IN IF c.res # "ok" THEN [res |-> c.res, is |-> [is EXCEPT !.st = c.st],
                                   appended |-> FALSE]
             ELSE LET d == pointer_dispose([is EXCEPT !.st = c.st], h)
                  IN [res |-> d.res, is |-> d.is, appended |-> FALSE]

\* PointerArrayWriter.close: MmapArrayWriter.close, whose self.flush() is
\* the flush of PointerArrayWriter, and then the index is disposed of
pointer_close(is, h) ==
  LET o == is.st.objs[h]
  IN IF o.is_closed = "yes"
     THEN LET d == pointer_dispose(is, h)
          IN [res |-> d.res, is |-> d.is, appended |-> FALSE]
     ELSE LET is1 == [is EXCEPT
                  !.st.objs[h].is_closed = "yes",
                  !.st.reg = [p \in Paths |-> IF p = o.path THEN 0 ELSE is.st.reg[p]]]
              fl == pointer_flush(is1, h)
          IN IF fl.res # "ok"
             THEN [res |-> fl.res, is |-> fl.is, appended |-> FALSE]
             ELSE LET is2 == [fl.is EXCEPT
                          !.st = Reclaim([@ EXCEPT !.objs[h].data = NoData,
                                                   !.objs[h].file = 0])]
                      d == pointer_dispose(is2, h)
                  IN [res |-> d.res, is |-> d.is, appended |-> fl.appended]

\* PointerArray(path): the reader, its index and the rows of each key
PointerArray(st, p) ==
  LET m == MmapArray(st, p)
  IN IF m.res # "ok" THEN [res |-> m.res, rows |-> 0, data |-> <<>>, indices |-> NoKeys]
     ELSE LET r == read_indices(st.disk[st.fs[p]].body)
          IN [res |-> r.res, rows |-> m.rows, data |-> m.data, indices |-> r.d]

\* a lookup that gives the rows up to end, from the first row of the array
getitem_fromFirst(reader, key) ==
  IF reader.indices[key] = Absent THEN [res |-> "KeyError", rows |-> <<>>]
  ELSE LET end == reader.indices[key][2]
           stop == IF end > reader.rows THEN reader.rows ELSE end
       IN [res |-> "ok", rows |-> SubSeq(reader.data, 1, stop)]

\* start, end = self._indices[key]; self[start:end]
getitem(reader, key) ==
  IF reader.indices[key] = Absent THEN [res |-> "KeyError", rows |-> <<>>]
  ELSE LET start == reader.indices[key][1]
           end == reader.indices[key][2]
           stop == IF end > reader.rows THEN reader.rows ELSE end
       IN [res |-> "ok",
           rows |-> IF start >= stop THEN <<>>
                    ELSE SubSeq(reader.data, start + 1, stop)]

\* ------------------------------------------------- the indexed store
MaxTrailers == 2     \* no indexed file is given more trailers than this
MaxIndexRows == 2    \* nor grows beyond this many rows

IndexShapes == { <<0, "t5">>, <<MaxIndexRows, "t5">> }
beside_index == <<sess, registry, aligned, sh, wk, tr, rd, hd, pr>>

SetIndex(is) ==
  /\ Set(is.st)
  /\ PROXY_DICT' = is.proxy
  /\ pw' = is.pw

\* the rows a write copies: [start, start + total rows)
Touched(w, accepted) == (w.start + 1)..(w.start + SumRows(accepted))
RangeRows(r) == (r[1] + 1)..r[2]

PointerOpen(p, shape, dtype, remove_exist) ==
  /\ INSTANCES_WRITER[p] = 0 => FreeObjects(St) # {}
  /\ FreeInodes(St) # {}
  /\ \E c \in {pointer_construct(IS, p, shape, dtype, remove_exist)} :
        /\ SetIndex(c.is)
        /\ Called("open", c.res, c.h, c.h # 0 /\ ~c.isnew, 0, 0, 0, 0)
        /\ ih' = IF c.isnew /\ c.res = "ok"
                 THEN IF c.is.st.objs[c.h].start_position = 0
                      THEN NoHistory ELSE [ih EXCEPT !.since = NoDict]
                 ELSE ih
        /\ UNCHANGED beside_index

PointerWrite(h, arrays, start_position) ==
  /\ h \in Held
  /\ IF objs[h].data = NoData
     THEN arrays = <<Named("a", "t5", <<1>>)>> /\ start_position = Absent
     ELSE ResolveStart(objs[h], start_position)
            + SumRows(Accepted(arrays, objs[h].data.trail)) <= MaxIndexRows
  /\ \E w \in {pointer_write(IS, h, arrays, start_position)} :
     LET accepted == Accepted(arrays, objs[h].data.trail)
     IN /\ SetIndex(w.is)
        /\ Called("write", w.res, h, FALSE, w.grown, w.grown, w.grown, w.dropped)
        /\ ih' = IF w.res # "ok" THEN ih
                 ELSE [ih EXCEPT
                   !.block = [k \in Keys |->
                      IF \E i \in 1..Len(accepted) : accepted[i].name = k
                      THEN accepted[CHOOSE i \in 1..Len(accepted) :
                                       accepted[i].name = k].rows
                      ELSE @[k]],
                   !.clean = { k \in Keys : w.indices[k] # Absent } \cup
                             { k \in @ : /\ w.indices[k] = Absent
                                         /\ RangeRows(PROXY_DICT[objs[h].path].d[k])
                                              \cap Touched(w, accepted) = {} }]
        /\ UNCHANGED beside_index

PointerFlush(h) ==
  /\ h \in Held
  /\ \E f \in {pointer_flush(IS, h)} :
        /\ f.appended => ih.trailers < MaxTrailers
        /\ SetIndex(f.is)
        /\ Called("flush", f.res, h, FALSE, 0, 0, 0, 0)
        /\ ih' = IF f.res # "ok" THEN ih
                 ELSE [ih EXCEPT !.since = PROXY_DICT[objs[h].path],
                                 !.trailers = IF f.appended THEN @ + 1 ELSE @]
        /\ UNCHANGED beside_index

PointerClose(h) ==
  /\ h \in Held
  /\ \E c \in {pointer_close(IS, h)} :
        /\ c.appended => ih.trailers < MaxTrailers
        /\ SetIndex(c.is)
        /\ Called(IF objs[h].is_closed = "yes" THEN "close_again" ELSE "close",
                  c.res, h, FALSE, 0, 0, 0, 0)
        /\ ih' = IF c.res # "ok" \/ objs[h].is_closed = "yes" THEN ih
                 ELSE [ih EXCEPT !.since = PROXY_DICT[objs[h].path],
                                 !.trailers = IF c.appended THEN @ + 1 ELSE @]
        /\ UNCHANGED beside_index

NextIndex ==
  \/ \E shape \in IndexShapes, dtype \in DTypes, r \in BOOLEAN :
        PointerOpen("p1", shape, dtype, r)
  \/ \E h \in Objects, arrays \in NamedBatches, sp \in IndexStarts :
        PointerWrite(h, arrays, sp)
  \/ \E h \in Objects : PointerFlush(h)
  \/ \E h \in Objects : PointerClose(h)

SpecIndex == Init /\ [][NextIndex]_vars

\* ------------------------------------------------- the shared index
\* One _PROXY_DICT entry: a dict in the manager's process, and holders of
\* its proxy in several processes.  Every method of the proxy is one
\* request the manager serves on its own; a holder's lock is the Lock() its
\* _SharedDictWriter made, or the one it inherited when its process forked.
MaxMerges == 3       \* updates the holders make in all
SharedPath == "p1"

Range(s, e) == <<s, e>>
ItemSets ==
  { [k \in Keys |-> IF k = "a" THEN Range(0, 1) ELSE Absent],
    [k \in Keys |-> IF k = "b" THEN Range(1, 2) ELSE Absent],
    [k \in Keys |-> IF k = "a" THEN Range(2, 3) ELSE Range(3, 4)] }

\* the keys of a dict, in order
keys(d) == (IF d["a"] # Absent THEN <<"a">> ELSE <<>>)
             \o (IF d["b"] # Absent THEN <<"b">> ELSE <<>>)

beside_shared == <<INSTANCES_WRITER, objs, fs, disk, last, sess, registry, aligned,
                   pw, ih, wk, tr, rd, hd, pr>>

\* a holder made in a process forked from the first one's has its lock;
\* one made by __setstate__ or by a second _SharedDictWriter has a new Lock()
SharedInit ==
  /\ StoreInit
  /\ registry = {}
  /\ aligned = NoAligned
  /\ pw = [h \in Objects |-> NoPointer]
  /\ ih = NoHistory
  /\ wk = NoWorkers
  /\ ElseIdle
  /\ PROXY_DICT = [p \in Paths |-> IF p = SharedPath
                                   THEN [has |-> TRUE, d |-> NoKeys] ELSE NoDict]
  /\ \E lock_of \in [Holders -> Holders] :
        /\ \A p \in Holders : lock_of[p] \in {1, p}
        /\ sh = [NoHolders EXCEPT !.lock_of = lock_of, !.past = {NoKeys}]

\* update: with self._lock
AcquireForUpdate(p, items) ==
  /\ sh.at[p].pc = "idle"
  /\ sh.merges < MaxMerges
  /\ sh.lock[sh.lock_of[p]] = 0
  /\ sh' = [sh EXCEPT !.lock[sh.lock_of[p]] = p,
                      !.at[p] = [Idle EXCEPT !.pc = "update", !.items = items]]
  /\ UNCHANGED <<PROXY_DICT, beside_shared>>

\* update: self._dict.update(items), and the lock is released
Update(p) ==
  /\ sh.at[p].pc = "update"
  /\ \E d \in {update(PROXY_DICT[SharedPath].d, sh.at[p].items)} :
        /\ PROXY_DICT' = [PROXY_DICT EXCEPT ![SharedPath].d = d]
        /\ sh' = [sh EXCEPT !.lock[sh.lock_of[p]] = 0,
                            !.at[p] = Idle,
                            !.merges = @ + 1,
                            !.latest = [k \in Keys |->
                               IF sh.at[p].items[k] # Absent
                               THEN sh.at[p].items[k] ELSE @[k]],
                            !.past = @ \cup {d}]
  /\ UNCHANGED beside_shared

\* values: with self._lock
AcquireForValues(p) ==
  /\ sh.at[p].pc = "idle"
  /\ sh.lock[sh.lock_of[p]] = 0
  /\ sh' = [sh EXCEPT !.lock[sh.lock_of[p]] = p,
                      !.at[p] = [Idle EXCEPT !.pc = "values"]]
  /\ UNCHANGED <<PROXY_DICT, beside_shared>>

\* values: return self._dict, and the lock is released
Values(p) ==
  /\ sh.at[p].pc = "values"
  /\ sh' = [sh EXCEPT !.lock[sh.lock_of[p]] = 0, !.at[p].pc = "dict"]
  /\ UNCHANGED <<PROXY_DICT, beside_shared>>

\* dict(proxy): the proxy's keys()
DictKeys(p) ==
  /\ sh.at[p].pc = "dict"
  /\ sh' = [sh EXCEPT !.at[p].keys = keys(PROXY_DICT[SharedPath].d),
                      !.at[p].pc = "items"]
  /\ UNCHANGED <<PROXY_DICT, beside_shared>>

\* dict(proxy): proxy[key] for the next key
DictItem(p) ==
  /\ sh.at[p].pc = "items"
  /\ sh.at[p].keys # <<>>
  /\ sh' = [sh EXCEPT !.at[p].snapshot[Head(sh.at[p].keys)] =
                          PROXY_DICT[SharedPath].d[Head(sh.at[p].keys)],
                      !.at[p].keys = Tail(@)]
  /\ UNCHANGED <<PROXY_DICT, beside_shared>>

\* flush: pickle.dumps(indices) and its size, written to the file
WriteTrailer(p) ==
  /\ sh.at[p].pc = "items"
  /\ sh.at[p].keys = <<>>
  /\ sh' = [sh EXCEPT !.written = trailer(sh.at[p].snapshot), !.at[p] = Idle]
  /\ UNCHANGED <<PROXY_DICT, beside_shared>>

\* dispose: the holder drops its lock and its proxy
Dispose(p) ==
  /\ sh.at[p].pc = "idle"
  /\ sh' = [sh EXCEPT !.at[p].pc = "disposed"]
  /\ UNCHANGED <<PROXY_DICT, beside_shared>>

NextShared ==
  \/ \E p \in Holders, items \in ItemSets : AcquireForUpdate(p, items)
  \/ \E p \in Holders : Update(p)
  \/ \E p \in Holders : AcquireForValues(p)
  \/ \E p \in Holders : Values(p)
  \/ \E p \in Holders : DictKeys(p)
  \/ \E p \in Holders : DictItem(p)
  \/ \E p \in Holders : WriteTrailer(p)
  \/ \E p \in Holders : Dispose(p)

SpecShared == SharedInit /\ [][NextShared]_vars

\* ------------------------------------------------- the worker pool
\* One writer on a new file of MaxRows rows; the processes of a pool are
\* forked from its process, so each has a copy of the writer and a mapping
\* of the same file, and each calls write(arrays, start_position) with the
\* arrays and the start position of its job.  The copy of an array into the
\* mapping is not one step: other processes run between its rows.
WorkerPath == "p1"
JobArrays ==
  { <<Block("t5", <<1>>)>>, <<Block("t5", <<2, 1>>)>>,
    <<Block("t5", <<1>>), Block("t5", <<2>>)>>,
    <<Block("t8", <<2>>), Block("t5", <<2>>)>> }
Jobs == [start : 0..(MaxRows - 1), arrays : JobArrays]

\* the rows [start, start + rows of the accepted arrays) of a job
JobRange(j) == (j.start + 1)..(j.start + SumRows(Accepted(j.arrays, "t5")))

beside_workers == <<INSTANCES_WRITER, objs, fs, last, sess, registry, aligned,
                    PROXY_DICT, pw, ih, sh, tr, rd, hd, pr>>

\* the jobs are given row ranges of the file that do not overlap
WorkersInit ==
  /\ last = [op |-> "none", res |-> "ok", h |-> 0, reused |-> FALSE,
             fopens |-> 0, mmaps |-> 0, resizes |-> 0, dropped |-> 0]
  /\ sess = [p \in Paths |-> NoSess]
  /\ registry = {}
  /\ aligned = NoAligned
  /\ PROXY_DICT = [p \in Paths |-> NoDict]
  /\ pw = [h \in Objects |-> NoPointer]
  /\ ih = NoHistory
  /\ sh = NoHolders
  /\ ElseIdle
  /\ \E c \in {construct([reg |-> [p \in Paths |-> 0],
                          objs |-> [h \in Objects |-> NoObject],
                          fs |-> [p \in Paths |-> 0],
                          disk |-> [i \in Inodes |-> NoFile]],
                         WorkerPath, <<MaxRows, "t5">>, "float64", TRUE)} :
        /\ INSTANCES_WRITER = c.st.reg
        /\ objs = c.st.objs
        /\ fs = c.st.fs
        /\ disk = c.st.disk
  /\ \E jobs \in [Workers -> Jobs] :
        /\ \A w \in Workers : \A r \in JobRange(jobs[w]) : r <= MaxRows
        /\ \A v, w \in Workers : v # w => JobRange(jobs[v]) \cap JobRange(jobs[w]) = {}
        /\ wk = [NoWorkers EXCEPT !.jobs = jobs]

\* the writer of the pool, as every process has it
Forked == objs[INSTANCES_WRITER[WorkerPath]]

\* write(arrays, start_position), up to the copy
BeginWrite(w) ==
  /\ wk.at[w].pc = "ready"
  /\ LET o == Forked
         job == wk.jobs[w]
         accepted_arrays == Accepted(job.arrays, o.data.trail)
         add_size == SumRows(accepted_arrays)
         start == ResolveStart(o, <<job.start>>)
         add_length == add_size - (o.data.rows - start)
     IN wk' = [wk EXCEPT !.at[w] =
                 IF o.is_closed = "yes" THEN [Ready EXCEPT !.pc = "RuntimeError_closed"]
                 ELSE IF Len(accepted_arrays) = 0
                 THEN [Ready EXCEPT !.pc = "RuntimeError_no_array"]
                 ELSE IF add_length > 0 THEN [Ready EXCEPT !.pc = "resize"]
                 ELSE [pc |-> "copy", start |-> start,
                       rows |-> RowsOf(accepted_arrays, o.data.trail)]]
  /\ UNCHANGED <<disk, beside_workers>>

\* a copy put one row too far
CopyRow_oneOff(body, start, rows) ==
  [i \in 1..Len(body) |-> IF i = start + 2 THEN Head(rows) ELSE body[i]]

\* data[start] = the next row of the array
CopyRow(body, start, rows) ==
  [i \in 1..Len(body) |-> IF i = start + 1 THEN Head(rows) ELSE body[i]]

\* data[start:start + a.shape[0]] = a, one row
CopyOne(w) ==
  /\ wk.at[w].pc = "copy"
  /\ wk.at[w].rows # <<>>
  /\ disk' = [disk EXCEPT ![Forked.data.ino].body =
                 CopyRow(@, wk.at[w].start, wk.at[w].rows)]
  /\ wk' = [wk EXCEPT !.at[w].start = @ + 1, !.at[w].rows = Tail(@)]
  /\ UNCHANGED beside_workers

\* write returns
EndWrite(w) ==
  /\ wk.at[w].pc = "copy"
  /\ wk.at[w].rows = <<>>
  /\ wk' = [wk EXCEPT !.at[w] = [Ready EXCEPT !.pc = "done"]]
  /\ UNCHANGED <<disk, beside_workers>>

NextWorkers ==
  \/ \E w \in Workers : BeginWrite(w)
  \/ \E w \in Workers : CopyOne(w)
  \/ \E w \in Workers : EndWrite(w)

SpecWorkers == WorkersInit /\ [][NextWorkers]_vars

\* ------------------------------------------------- the state transfer
\* A writer and the writers reconstructed from its state in the same
\* process (pickle.loads(pickle.dumps(f))): all of them find the path in
\* _PROXY_DICT and so hold the proxy of one dict.
TransferPath == "p1"

\* self.dtype: the element type of the mapping
dtype_of(o) == o.data.dtype

\* PointerArrayWriter.__getstate__
getstate(is, h) ==
  LET o == is.st.objs[h]
  IN IF o.data = NoData \/ is.pw[h].indices # "set"
     THEN [res |-> "AttributeError", path |-> None, shape |-> Absent,
           dtype |-> None, indices |-> NoKeys]
     ELSE [res |-> "ok", path |-> o.path, shape |-> <<o.data.rows, o.data.trail>>,
           dtype |-> dtype_of(o), indices |-> is.proxy[o.path].d]

\* PointerArrayWriter._init(path, shape, dtype, remove_exist, indices) with
\* indices given
pointer_init_indices(is, h, p, shape, dtype, remove_exist, indices) ==
  LET b == MmapArrayWriter_init(is.st, h, p, shape, dtype, remove_exist)
      is1 == [is EXCEPT !.st = b.st]
  IN IF b.res # "ok" THEN [res |-> b.res, is |-> is1]
     ELSE [res |-> "ok",
           is |-> [is1 EXCEPT !.pw[h].is_indices_saved = "no",
                              !.pw[h].indices = "set",
                              !.proxy = SharedDictWriter(@, indices, p)]]

\* the object pickle.loads makes before __setstate__: it is in no registry
reconstruct_new(is) ==
  LET h == NewObject(is.st)
  IN [h |-> h, is |-> [is EXCEPT !.st.objs[h] = [NoObject EXCEPT !.alloc = TRUE],
                                 !.pw[h] = NoPointer]]

\* PointerArrayWriter.__setstate__(states)
setstate(is, h, states) ==
  pointer_init_indices(is, h, states.path, states.shape, states.dtype, FALSE,
                       states.indices)

beside_transfer == <<sess, registry, aligned, ih, sh, wk, rd, hd, pr>>

\* the first writer of the path, on a new file
TransferOpen(shape, dtype) ==
  /\ \A h \in Objects : ~objs[h].alloc
  /\ \E c \in {pointer_construct(IS, TransferPath, shape, dtype, TRUE)} :
        /\ SetIndex(c.is)
        /\ Called("open", c.res, c.h, FALSE, 0, 0, 0, 0)
        /\ tr' = NoTransfer
  /\ UNCHANGED beside_transfer

\* f1 = pickle.loads(pickle.dumps(f))
Transfer(h) ==
  /\ h \in Held
  /\ objs[h].is_closed = "no"
  /\ FreeObjects(St) # {}
  /\ \E g \in {getstate(IS, h)} :
        IF g.res # "ok"
        THEN /\ Called("transfer", g.res, h, FALSE, 0, 0, 0, 0)
             /\ UNCHANGED <<INSTANCES_WRITER, objs, fs, disk, PROXY_DICT, pw, tr>>
        ELSE \E n \in {reconstruct_new(IS)} :
             \E s \in {setstate(n.is, n.h, g)} :
                /\ SetIndex(s.is)
                /\ Called("transfer", s.res, n.h, FALSE, 0, 0, 0, 0)
                /\ tr' = [tr EXCEPT !.from[n.h] = h]
  /\ UNCHANGED beside_transfer

\* the handles a handle was reconstructed from, itself left out
RECURSIVE Originals(_, _)
Originals(from, h) ==
  IF from[h] = 0 THEN {} ELSE {from[h]} \cup Originals(from, from[h])

\* an append through one of the handles
TransferWrite(h, arrays) ==
  /\ h \in Held
  /\ objs[h].data # NoData
  /\ objs[h].start_position + SumRows(Accepted(arrays, objs[h].data.trail)) <= MaxRows
  /\ \E w \in {pointer_write(IS, h, arrays, Absent)} :
     LET accepted == Accepted(arrays, objs[h].data.trail)
         touched == Touched(w, accepted)
     IN /\ SetIndex(w.is)
        /\ Called("write", w.res, h, FALSE, w.grown, w.grown, w.grown, w.dropped)
        /\ tr' = IF w.res # "ok" THEN tr
                 ELSE [tr EXCEPT
                   !.block = [k \in Keys |->
                      IF \E i \in 1..Len(accepted) : accepted[i].name = k
                      THEN accepted[CHOOSE i \in 1..Len(accepted) :
                                       accepted[i].name = k].rows
                      ELSE @[k]],
                   !.rows[h] = @ \cup touched,
                   !.overlap = @ \/ \E g \in Originals(tr.from, h) :
                                       tr.rows[g] \cap touched # {}]
  /\ UNCHANGED beside_transfer

\* a flush through one of the handles
TransferFlush(h) ==
  /\ h \in Held
  /\ objs[h].data # NoData
  /\ \E f \in {pointer_flush(IS, h)} :
        /\ f.appended => tr.trailers < MaxTrailers
        /\ SetIndex(f.is)
        /\ Called("flush", f.res, h, FALSE, 0, 0, 0, 0)
        /\ tr' = IF f.appended THEN [tr EXCEPT !.trailers = @ + 1] ELSE tr
  /\ UNCHANGED beside_transfer

NextTransfer ==
  \/ \E shape \in IndexShapes, dtype \in DTypes : TransferOpen(shape, dtype)
  \/ \E h \in Objects : Transfer(h)
  \/ \E h \in Objects, arrays \in NamedBatches : TransferWrite(h, arrays)
  \/ \E h \in Objects : TransferFlush(h)

SpecTransfer == Init /\ [][NextTransfer]_vars

\* ------------------------------------------------- the indexed reader
\* One indexed writer and one PointerArray on its file.  The reader's rows
\* are a mapping of the file, as long as the header said when the reader
\* was opened; its mapping of keys is the dict decoded at that time.
ReaderPath == "p1"
MaxReaderUnits == 6   \* a flush is made to a file of no more units than this

\* the methods of the reader's mapping that change a dict
Mutators == {"__setitem__", "__delitem__", "pop", "popitem", "clear", "update",
             "setdefault"}
\* and one that does not
DictMethods == Mutators \cup {"get"}

\* dict.<method>(key, value): what the method does to a dict
dict_call(d, method, key, value) ==
  IF method \in {"__setitem__", "update"}
  THEN [res |-> "ok", d |-> [d EXCEPT ![key] = value]]
  ELSE IF method = "setdefault"
  THEN [res |-> "ok", d |-> IF d[key] = Absent THEN [d EXCEPT ![key] = value] ELSE d]
  ELSE IF method \in {"__delitem__", "pop"}
  THEN IF d[key] = Absent THEN [res |-> "KeyError", d |-> d]
       ELSE [res |-> "ok", d |-> [d EXCEPT ![key] = Absent]]
  ELSE IF method = "popitem"
  THEN IF d = NoKeys THEN [res |-> "KeyError", d |-> d]
       ELSE [res |-> "ok",
             d |-> [d EXCEPT ![IF d["b"] # Absent THEN "b" ELSE "a"] = Absent]]
  ELSE IF method = "clear" THEN [res |-> "ok", d |-> NoKeys]
  ELSE [res |-> "ok", d |-> d]

\* a _ReadOnlyDict that leaves update to dict
ReadOnlyDict_call_updates(d, method, key, value) ==
  IF method \in Mutators \ {"update"} THEN [res |-> "RuntimeError", d |-> d]
  ELSE dict_call(d, method, key, value)

\* _ReadOnlyDict.<method>(key, value)
ReadOnlyDict_call(d, method, key, value) ==
  IF method \in Mutators THEN [res |-> "RuntimeError", d |-> d]
  ELSE dict_call(d, method, key, value)

\* numpy: array[start:end] for 0 <= start, end
ndarray_slice(data, start, end) ==
  LET stop == IF end > Len(data) THEN Len(data) ELSE end
  IN [res |-> "ok", rows |-> IF start >= stop THEN <<>> ELSE SubSeq(data, start + 1, stop)]

\* PointerArray.__getitem__(key): key is a string, or the row range <<start, end>>
PointerArray_getitem(reader, key) ==
  IF key \in Keys THEN getitem(reader, key)
  ELSE ndarray_slice(reader.data, key[1], key[2])

\* the reader as it is now: the rows of its mapping are those of the file
Reader ==
  [res |-> "ok", rows |-> rd.rows, indices |-> rd.indices,
   data |-> SubSeq(memmap(disk[rd.ino].body, rd.rows), 1, rd.rows)]

beside_reader == <<sess, registry, aligned, ih, sh, wk, tr, hd, pr>>

\* the writer of the file
ReaderStoreOpen(shape, dtype) ==
  /\ \A h \in Objects : ~objs[h].alloc
  /\ \E c \in {pointer_construct(IS, ReaderPath, shape, dtype, TRUE)} :
        /\ SetIndex(c.is)
        /\ Called("open", c.res, c.h, FALSE, 0, 0, 0, 0)
  /\ UNCHANGED <<rd, beside_reader>>

ReaderStoreWrite(h, arrays, start_position) ==
  /\ h \in Held
  /\ objs[h].is_closed = "no"
  /\ ResolveStart(objs[h], start_position)
        + SumRows(Accepted(arrays, objs[h].data.trail)) <= MaxIndexRows
  /\ \E w \in {pointer_write(IS, h, arrays, start_position)} :
        /\ SetIndex(w.is)
        /\ Called("write", w.res, h, FALSE, w.grown, w.grown, w.grown, w.dropped)
  /\ UNCHANGED <<rd, beside_reader>>

ReaderStoreFlush(h) ==
  /\ h \in Held
  /\ objs[h].is_closed = "no"
  /\ \E f \in {pointer_flush(IS, h)} :
        /\ f.appended => Len(disk[objs[h].data.ino].body) <= MaxReaderUnits
        /\ SetIndex(f.is)
        /\ Called("flush", f.res, h, FALSE, 0, 0, 0, 0)
  /\ UNCHANGED <<rd, beside_reader>>

\* x = PointerArray(path)
ReaderOpen ==
  /\ ~rd.open
  /\ fs[ReaderPath] # 0
  /\ \E r \in {PointerArray(St, ReaderPath)} :
        /\ rd' = IF r.res # "ok" THEN rd
                 ELSE [open |-> TRUE, ino |-> fs[ReaderPath], rows |-> r.rows,
                       indices |-> r.indices,
                       at_open |-> read_indices(disk[fs[ReaderPath]].body).d]
        /\ Called("read", r.res, 0, FALSE, 0, 0, 0, 0)
  /\ UNCHANGED <<INSTANCES_WRITER, objs, fs, disk, PROXY_DICT, pw, beside_reader>>

\* x.indices.<method>(key, value)
ReaderMutate(method, key, value) ==
  /\ rd.open
  /\ \E c \in {ReadOnlyDict_call(rd.indices, method, key, value)} :
        /\ rd' = [rd EXCEPT !.indices = c.d]
        /\ Called(IF method \in Mutators THEN "mutate" ELSE "ask", c.res, 0, FALSE,
                  0, 0, 0, 0)
  /\ UNCHANGED <<INSTANCES_WRITER, objs, fs, disk, PROXY_DICT, pw, beside_reader>>

\* x[key]
ReaderGet(key) ==
  /\ rd.open
  /\ \E g \in {PointerArray_getitem(Reader, key)} :
        Called("get", g.res, 0, FALSE, 0, 0, 0, 0)
  /\ UNCHANGED <<rd, INSTANCES_WRITER, objs, fs, disk, PROXY_DICT, pw, beside_reader>>

RowRanges == { <<lo, hi>> : lo \in 0..MaxIndexRows, hi \in 0..(MaxIndexRows + 1) }

NextReader ==
  \/ \E shape \in IndexShapes, dtype \in DTypes : ReaderStoreOpen(shape, dtype)
  \/ \E h \in Objects, arrays \in NamedBatches, sp \in IndexStarts :
        ReaderStoreWrite(h, arrays, sp)
  \/ \E h \in Objects : ReaderStoreFlush(h)
  \/ ReaderOpen
  \/ \E method \in DictMethods, key \in Keys : ReaderMutate(method, key, <<0, 1>>)
  \/ \E key \in Keys \cup RowRanges : ReaderGet(key)

SpecReader == Init /\ [][NextReader]_vars

\* ------------------------------------------------- the header in bytes
\* One store, as far as the size of its header goes.  A row count is kept
\* in units of 2^30 rows, so that a count that no longer fits marshal's
\* 32-bit int can be written: that is a count of 2 units or more.  Trailing
\* dimensions are small numbers; a dtype is the length of its name and its
\* item size.
MaxHeaderRows == 3    \* row counts, in units of 2^30 rows
NPY_MAXDIMS == 64     \* numpy makes no array of more dimensions
\* int8, int16, float32 and float64
HeaderDTypes == { [name |-> 4, itemsize |-> 1], [name |-> 5, itemsize |-> 2],
                  [name |-> 7, itemsize |-> 4], [name |-> 7, itemsize |-> 8] }
HeaderTrails == {0, 1, NPY_MAXDIMS - 1, NPY_MAXDIMS, 92, 93, 94}

\* marshal: an int of 32 bits is a type byte and 4 bytes; a longer one is a
\* type byte, 4 bytes of length and 2 bytes for every 15 bits
marshal_int(units) == IF units >= 2 THEN 1 + 4 + 2 * 3 ELSE 1 + 4
\* a short string: a type byte, a length byte and the characters
marshal_str(n) == 2 + n

\* len(marshal.dumps([dtype, shape])): a list of a string and a tuple
marshal_dumps(dtype, rows, ntrail) ==
  (1 + 4) + marshal_str(dtype.name) + 2 + marshal_int(rows) + ntrail * (1 + 4)

\* the byte after the header: magic, length field and blob
header_end(blob) == HEADER_LEN + HEADER_SIZE_LENGTH + blob

\* the creation branch of __init__ without its check of the size
header_create_unchecked(dtype, rows, ntrail) ==
  LET size == marshal_dumps(dtype, rows, ntrail)
      written == [NoHeader EXCEPT !.dtype = dtype, !.rows = rows, !.ntrail = ntrail,
                                  !.asked = size, !.blob = size,
                                  !.reached = header_end(size)
                                                > aligned_memmap_offset(dtype.itemsize)]
  IN IF 1 + ntrail > NPY_MAXDIMS
     THEN [res |-> "ValueError", hd |-> [written EXCEPT !.state = "failed"]]
     ELSE [res |-> "ok", hd |-> [written EXCEPT !.state = "live"]]

\* __init__, create new file: the header is written, then the data is mapped
header_create(dtype, rows, ntrail) ==
  LET size == marshal_dumps(dtype, rows, ntrail)
      written == [NoHeader EXCEPT !.dtype = dtype, !.rows = rows, !.ntrail = ntrail,
                                  !.asked = size, !.blob = size,
                                  !.reached = header_end(size)
                                                > aligned_memmap_offset(dtype.itemsize)]
  IN IF size > MAXIMUM_HEADER_SIZE
     THEN [res |-> "Exception", hd |-> [NoHeader EXCEPT !.state = "failed", !.asked = size]]
     ELSE IF 1 + ntrail > NPY_MAXDIMS
     THEN \* np.memmap raises: the file has its header and no writer
          [res |-> "ValueError", hd |-> [written EXCEPT !.state = "failed"]]
     ELSE [res |-> "ok", hd |-> [written EXCEPT !.state = "live"]]

\* _resize to more rows: the header is written again
header_resize(h, new_length) ==
  LET size == marshal_dumps(h.dtype, new_length, h.ntrail)
  IN [h EXCEPT !.rows = new_length, !.asked = size, !.blob = size,
               !.reached = @ \/ header_end(size) > aligned_memmap_offset(h.dtype.itemsize)]

beside_procs == <<INSTANCES_WRITER, objs, fs, disk, sess, registry, aligned,
                  PROXY_DICT, pw, ih, sh, wk, tr, rd, hd>>

beside_header == <<INSTANCES_WRITER, objs, fs, disk, sess, registry, aligned,
                   PROXY_DICT, pw, ih, sh, wk, tr, rd, pr>>

\* MmapArrayWriter(path, shape, dtype, remove_exist=True)
HeaderCreate(dtype, rows, ntrail) ==
  /\ \E c \in {header_create(dtype, rows, ntrail)} :
        /\ hd' = c.hd
        /\ Called("open", c.res, 0, FALSE, 0, 0, 0, 0)
  /\ UNCHANGED beside_header

\* _resize(new_length), new_length > the rows of the mapping
HeaderResize(new_length) ==
  /\ hd.state = "live"
  /\ new_length > hd.rows
  /\ hd' = header_resize(hd, new_length)
  /\ Called("resize", "ok", 0, FALSE, 1, 1, 1, 0)
  /\ UNCHANGED beside_header

NextHeader ==
  \/ \E dtype \in HeaderDTypes, rows \in 0..MaxHeaderRows, ntrail \in HeaderTrails :
        HeaderCreate(dtype, rows, ntrail)
  \/ \E new_length \in 0..MaxHeaderRows : HeaderResize(new_length)

SpecHeader == Init /\ [][NextHeader]_vars

\* ------------------------------------------ processes opening one path
\* Every process of the pool runs one job: it opens its own writer on the
\* path, with the shape of the whole array, writes the rows of its job at
\* their start position and closes.  Each process has its own registry,
\* empty at the start of the job, so each constructor call makes a new
\* object and runs __init__ on it.  __init__ is not one step: other
\* processes run between its test of the file, its open and its mapping.
JobRows == 2
ProcShape == JobRows * MaxWorkers
job_start(w) == (w - 1) * JobRows
job_array(w) == [i \in 1..JobRows |-> w]

\* os.stat(path).st_size
st_size(file) == (IF file.header THEN 1 ELSE 0) + Len(file.body)

\* __init__, line 137: os.path.exists(path) and os.stat(path).st_size > 0
ProcTest(w) ==
  /\ pr.at[w].pc = "start"
  /\ pr' = [pr EXCEPT !.at[w].pc = IF st_size(pr.file) > 0 THEN "read" ELSE "create"]
  /\ UNCHANGED <<last, beside_procs>>

\* __init__, lines 138-141 and 181-187: the header is read and the file
\* mapped with the shape of the header
ProcRead(w) ==
  /\ pr.at[w].pc = "read"
  /\ pr' = IF ~pr.file.header
           THEN \* read_mmaparray_header finds no magic in an emptied file
                [pr EXCEPT !.at[w].pc = "ValueError"]
           ELSE [pr EXCEPT !.at[w].pc = "mapped",
                           !.file.body = memmap(@, pr.file.rows)]
  /\ UNCHANGED <<last, beside_procs>>

\* __init__, line 154: open(path, 'wb+') makes the file or empties it; the
\* header stays in the buffer of the file object
ProcCreate(w) ==
  /\ pr.at[w].pc = "create"
  /\ pr' = [pr EXCEPT !.at[w].pc = "opened",
                      !.file = [header |-> FALSE, rows |-> 0, body |-> <<>>],
                      !.truncated = @ \/ st_size(pr.file) > 0]
  /\ UNCHANGED <<last, beside_procs>>

\* __init__, lines 181-187: np.memmap writes the buffer out and extends the
\* file to the shape
ProcMap(w) ==
  /\ pr.at[w].pc = "opened"
  /\ pr' = [pr EXCEPT !.at[w].pc = "mapped",
                      !.file = [header |-> TRUE, rows |-> ProcShape,
                                body |-> memmap(pr.file.body, ProcShape)]]
  /\ UNCHANGED <<last, beside_procs>>

\* write(array, start_position), up to the copy: the mapping has the rows
\* of the shape
ProcWrite(w) ==
  /\ pr.at[w].pc = "mapped"
  /\ LET add_size == Len(job_array(w))
         add_length == add_size - (ProcShape - job_start(w))
     IN pr' = [pr EXCEPT !.at[w] =
                 IF add_length > 0 THEN [Starting EXCEPT !.pc = "resize"]
                 ELSE [pc |-> "copy", start |-> job_start(w), rows |-> job_array(w)]]
  /\ UNCHANGED <<last, beside_procs>>

\* data[start:start + a.shape[0]] = a, one row: a store into a page of the
\* mapping that lies past the end of the file ends the process
ProcCopy(w) ==
  /\ pr.at[w].pc = "copy"
  /\ pr.at[w].rows # <<>>
  /\ pr' = IF pr.at[w].start + 1 > Len(pr.file.body)
           THEN [pr EXCEPT !.at[w].pc = "SIGBUS"]
           ELSE [pr EXCEPT !.file.body = CopyRow(@, pr.at[w].start, pr.at[w].rows),
                           !.at[w].start = @ + 1, !.at[w].rows = Tail(@)]
  /\ UNCHANGED <<last, beside_procs>>

\* write returns and __exit__ closes the writer
ProcClose(w) ==
  /\ pr.at[w].pc = "copy"
  /\ pr.at[w].rows = <<>>
  /\ pr' = [pr EXCEPT !.at[w] = [Starting EXCEPT !.pc = "done"]]
  /\ UNCHANGED <<last, beside_procs>>

NextProcs ==
  \/ \E w \in Workers : ProcTest(w)
  \/ \E w \in Workers : ProcRead(w)
  \/ \E w \in Workers : ProcCreate(w)
  \/ \E w \in Workers : ProcMap(w)
  \/ \E w \in Workers : ProcWrite(w)
  \/ \E w \in Workers : ProcCopy(w)
  \/ \E w \in Workers : ProcClose(w)

SpecProcs == Init /\ [][NextProcs]_vars

\* ================================================================ claims
store == <<INSTANCES_WRITER, objs, fs, disk>>

\* the live writers of a path
Live(p) == { h \in Objects : objs[h].is_closed = "no" /\ objs[h].path = p }

\* ---------------------------------------------------------------- C1
\* C1: at most one live writer per path; a constructor call for a path that
\* has a live writer gets that writer and opens no second file or mapping.
C1_Singleton ==
  /\ \A p \in Paths : Cardinality(Live(p)) <= 1
  /\ (last.op = "open" /\ last.reused) =>
        /\ last.res = "ok"
        /\ last.fopens = 0
        /\ last.mmaps = 0

\* ---------------------------------------------------------------- C2
\* C2: a constructor call that finds a live writer for the path leaves the
\* writer, the registry and the files as they were.
C2_ReopenUnchanged ==
  [][(last'.op = "open" /\ last'.reused) => UNCHANGED store]_vars

\* ---------------------------------------------------------------- C3
\* what a reader sees after the session of path p
Appended(p) == sess[p].app
Finished(p) == sess[p].state = "closed" /\ sess[p].pure

\* C3 as stated: after appends of N >= 1 rows in all to a store that held M
\* rows when it was opened, and a close, the reader reports M + N rows and
\* the appended rows in order after the first M.
C3_RoundTripSum ==
  \A p \in Paths :
    (Finished(p) /\ Len(Appended(p)) >= 1) =>
      LET x == MmapArray(St, p)
          M == sess[p].file0.rows
          N == Len(Appended(p))
      IN /\ x.res = "ok"
         /\ x.rows = M + N
         /\ \A i \in 1..N : x.data[M + i] = Appended(p)[i]

\* C3 as amended: a store reopened with M rows ends with M + N rows, the
\* appended rows at [M, M + N); a store created with leading dimension K ends
\* with max(K, N) rows, the appended rows at [0, N).
C3_RoundTrip ==
  \A p \in Paths :
    Finished(p) =>
      LET x == MmapArray(St, p)
          M == sess[p].file0.rows
          N == Len(Appended(p))
          S == IF sess[p].fresh THEN 0 ELSE M
      IN /\ x.res = "ok"
         /\ x.dtype = sess[p].file0.dtype /\ x.trail = sess[p].file0.trail
         /\ x.rows = (IF sess[p].fresh THEN Max(M, N) ELSE M + N)
         /\ \A i \in 1..N : x.data[S + i] = Appended(p)[i]

C3_Witness ==
  \E p \in Paths :
    /\ Finished(p) /\ ~sess[p].fresh
    /\ sess[p].file0.rows >= 1 /\ Len(Appended(p)) >= 2
    /\ last.op = "close"

\* ---------------------------------------------------------------- C4
\* C4: after K appends the row count, the stored rows and the append cursor
\* are those of one append of all the rows to the store as it was opened.
C4_BatchesAsOne ==
  \A p \in Paths :
    (sess[p].state = "live" /\ sess[p].pure) =>
      LET h == sess[p].h
          o0 == sess[p].obj0
          ino == o0.data.ino
          st0 == [St EXCEPT !.objs[h] = o0, !.disk[ino] = sess[p].file0]
          one == write(st0, h, <<Block(o0.data.trail, Appended(p))>>, Absent)
      IN /\ one.res = "ok"
         /\ objs[h].data.rows = one.st.objs[h].data.rows
         /\ objs[h].start_position = one.st.objs[h].start_position
         /\ disk[objs[h].data.ino] = one.st.disk[ino]

C4_Witness ==
  \E p \in Paths :
    /\ sess[p].state = "live" /\ sess[p].pure
    /\ sess[p].nb >= 2 /\ Len(Appended(p)) >= 3
    /\ last.op = "write"

\* ---------------------------------------------------------------- C5
\* a writer that has a mapping, and so a current row count
Mapped(h) == objs[h].data # NoData
Rows(h) == objs[h].data.rows
\* the rows of the file the writer h maps
Body(h) == disk[objs[h].data.ino].body

\* C5: _resize to fewer rows than the mapping has raises ValueError and
\* changes nothing; _resize to the same number of rows changes nothing.
C5_ShrinkRejected ==
  [][\A h \in Objects, n \in 0..MaxRows :
       (last'.op = "resize" /\ Resize(h, n) /\ Mapped(h)) =>
          /\ n < Rows(h) => (last'.res = "ValueError" /\ UNCHANGED store)
          /\ n = Rows(h) => (last'.res = "ok" /\ UNCHANGED store)]_vars

C5_Witness ==
  /\ last.op = "resize" /\ last.res = "ValueError"
  /\ \E h \in Objects : Mapped(h) /\ Rows(h) >= 1 /\ \E i \in 1..Rows(h) : Body(h)[i] # 0

\* ---------------------------------------------------------------- C6
\* C6: _resize to more rows maps the same file again with the new row count:
\* the rows it held keep their index and content, the header and the mapping
\* have the new row count, and nothing else changes.
C6_GrowKeepsRows ==
  [][\A h \in Objects, n \in 0..MaxRows :
       (last'.op = "resize" /\ Resize(h, n) /\ Mapped(h) /\ n > Rows(h)) =>
          /\ last'.res = "ok"
          /\ objs'[h] = [objs[h] EXCEPT !.data.rows = n]
          /\ disk'[objs'[h].data.ino].rows = n
          /\ Len(disk'[objs'[h].data.ino].body) >= n
          /\ \A i \in 1..Rows(h) : disk'[objs'[h].data.ino].body[i] = Body(h)[i]
          /\ disk'[objs'[h].data.ino].dtype = disk[objs[h].data.ino].dtype
          /\ disk'[objs'[h].data.ino].trail = disk[objs[h].data.ino].trail
          /\ UNCHANGED <<INSTANCES_WRITER, fs>>
          /\ \A k \in Objects \ {h} : objs'[k] = objs[k]]_vars

\* C6 where the file is still at the writer's path
C6_GrowKeepsRowsLinked ==
  [][\A h \in Objects, n \in 0..MaxRows :
       (last'.op = "resize" /\ Resize(h, n) /\ Mapped(h) /\ n > Rows(h) /\ fs[objs[h].path] = objs[h].data.ino) =>
          /\ last'.res = "ok"
          /\ objs'[h] = [objs[h] EXCEPT !.data.rows = n]
          /\ disk'[objs'[h].data.ino].rows = n
          /\ Len(disk'[objs'[h].data.ino].body) >= n
          /\ \A i \in 1..Rows(h) : disk'[objs'[h].data.ino].body[i] = Body(h)[i]
          /\ disk'[objs'[h].data.ino].dtype = disk[objs[h].data.ino].dtype
          /\ disk'[objs'[h].data.ino].trail = disk[objs[h].data.ino].trail
          /\ UNCHANGED <<INSTANCES_WRITER, fs>>
          /\ \A k \in Objects \ {h} : objs'[k] = objs[k]]_vars

\* ---------------------------------------------------------------- C7
\* the start a write resolves, as the claim states it
StartOf(h, sp) ==
  IF sp = Absent THEN objs[h].start_position
  ELSE IF sp[1] >= 0 THEN sp[1] ELSE Rows(h) - sp[1]

\* the rows a write of arrays puts into the store of h
Given(h, arrays) == RowsOf(arrays, objs[h].data.trail)
SomeAccepted(h, arrays) ==
  \E i \in 1..Len(arrays) : arrays[i].trail = objs[h].data.trail

Placed(h, arrays, sp) ==
  LET S == StartOf(h, sp)
      R == Len(Given(h, arrays))
      after == disk'[objs'[h].data.ino]
  IN /\ objs'[h].data.rows = Max(Rows(h), S + R)
     /\ after.rows = Max(Rows(h), S + R)
     /\ Len(after.body) >= Max(Rows(h), S + R)
     /\ \A i \in 1..R : after.body[S + i] = Given(h, arrays)[i]
     /\ \A i \in 1..Rows(h) : (i <= S \/ i > S + R) => after.body[i] = Body(h)[i]
     /\ \A i \in (Rows(h) + 1)..S : after.body[i] = 0
     /\ last'.resizes <= 1
     /\ last'.resizes = 1 <=> S + R > Rows(h)

\* C7: a write with accepted arrays of R rows in all puts them in order at
\* [S, S + R), S resolved from start_position, and leaves max(rows, S + R)
\* rows, after at most one _resize.
C7_WritePlacesRows ==
  [][\A h \in Objects, arrays \in Batches, sp \in StartPositions :
       (last'.op = "write" /\ Write(h, arrays, sp) /\ objs[h].is_closed = "no" /\ Mapped(h)
          /\ SomeAccepted(h, arrays)) =>
          (last'.res = "ok" /\ Placed(h, arrays, sp))]_vars

\* C7 where the file is still at the writer's path
C7_WritePlacesRowsLinked ==
  [][\A h \in Objects, arrays \in Batches, sp \in StartPositions :
       (last'.op = "write" /\ Write(h, arrays, sp) /\ objs[h].is_closed = "no" /\ Mapped(h)
          /\ SomeAccepted(h, arrays) /\ fs[objs[h].path] = objs[h].data.ino) =>
          (last'.res = "ok" /\ Placed(h, arrays, sp))]_vars

\* ---------------------------------------------------------------- C8
\* C8: in every reachable state, a write that returns leaves the cursor
\* after the last row written when start_position is None, and where it was
\* when start_position is given.
C8_Cursor ==
  \A h \in Held, arrays \in Batches, sp \in StartPositions :
     \E w \in {write(St, h, arrays, sp)} :
        w.res = "ok" =>
           w.st.objs[h].start_position =
              IF sp = Absent
              THEN objs[h].start_position + Len(Given(h, arrays))
              ELSE objs[h].start_position

C8_Witness ==
  /\ last.op = "write" /\ last.res = "ok"
  /\ \E p \in Paths :
       /\ sess[p].state = "live" /\ sess[p].pure /\ sess[p].nb >= 1
       /\ objs[sess[p].h].start_position >= 1
       /\ objs[sess[p].h].start_position < Rows(sess[p].h)

\* ---------------------------------------------------------------- C9
\* the arrays of a batch whose trailing shape is the store's
RECURSIVE Kept(_, _)
Kept(arrays, t) ==
  IF arrays = <<>> THEN <<>>
  ELSE (IF Head(arrays).trail = t THEN <<Head(arrays)>> ELSE <<>>)
         \o Kept(Tail(arrays), t)

\* C9: in every reachable state, a write to a live writer does what a
\* write of the arrays with the store's trailing shape alone does; with no
\* such array it raises RuntimeError and changes nothing.
C9_Dropped ==
  \A h \in Held, arrays \in Batches, sp \in StartPositions :
     (objs[h].is_closed = "no" /\ Mapped(h)) =>
        \E w \in {write(St, h, arrays, sp)},
           kept \in {Kept(arrays, objs[h].data.trail)} :
           /\ kept = <<>> => (w.res = "RuntimeError_no_array" /\ w.st = St)
           /\ kept # <<>> =>
                \E k \in {write(St, h, kept, sp)} :
                   w.res = k.res /\ w.st = k.st

C9_Witness ==
  /\ last.op = "write" /\ last.res = "ok" /\ last.dropped >= 1
  /\ \E h \in Objects : Mapped(h) /\ \E i \in 1..Rows(h) : Body(h)[i] # 0

\* --------------------------------------------------------------- C10
\* C10: the first close ends without error with the writer closed, its
\* mapping and file released and its path out of the registry; a close of a
\* closed writer changes nothing; a constructor call for a path that has no
\* entry and has a file makes a new live writer on the file's header.
C10_Close ==
  [][/\ \A h \in Objects :
          (last'.op = "close" /\ Close(h)) =>
             IF objs[h].is_closed = "no"
             THEN /\ last'.res = "ok"
                  /\ objs'[h].is_closed = "yes"
                  /\ objs'[h].data = NoData
                  /\ objs'[h].file = 0
                  /\ INSTANCES_WRITER'[objs[h].path] = 0
             ELSE last'.res = "ok" /\ UNCHANGED store
     /\ \A p \in Paths, shape \in OpenShapes, dtype \in OpenDTypes :
          (last'.op = "open" /\ INSTANCES_WRITER[p] = 0 /\ fs[p] # 0
             /\ Open(p, shape, dtype, FALSE)) =>
             /\ last'.res = "ok" /\ ~last'.reused
             /\ ~objs[last'.h].alloc
             /\ INSTANCES_WRITER'[p] = last'.h
             /\ objs'[last'.h].is_closed = "no"
             /\ objs'[last'.h].data.rows = disk[fs[p]].rows
             /\ objs'[last'.h].data.ino = fs[p]]_vars

\* C10 for the writers that have their mapping
C10_CloseMapped ==
  [][/\ \A p \in Paths, shape \in OpenShapes, dtype \in OpenDTypes :
          (last'.op = "open" /\ INSTANCES_WRITER[p] = 0 /\ fs[p] # 0
             /\ Open(p, shape, dtype, FALSE)) =>
             /\ last'.res = "ok" /\ ~last'.reused
             /\ ~objs[last'.h].alloc
             /\ INSTANCES_WRITER'[p] = last'.h
             /\ objs'[last'.h].is_closed = "no"
             /\ objs'[last'.h].data.rows = disk[fs[p]].rows
             /\ objs'[last'.h].data.ino = fs[p]
     /\ \A h \in Objects :
          (last'.op = "close" /\ Close(h) /\ (objs[h].is_closed = "no" => Mapped(h))) =>
             IF objs[h].is_closed = "no"
             THEN /\ last'.res = "ok"
                  /\ objs'[h].is_closed = "yes"
                  /\ objs'[h].data = NoData
                  /\ objs'[h].file = 0
                  /\ INSTANCES_WRITER'[objs[h].path] = 0
             ELSE last'.res = "ok" /\ UNCHANGED store]_vars

\* --------------------------------------------------------------- C11
\* C11: a write or a flush of a closed writer raises the error of a closed
\* writer (RuntimeError "The MmapArrayWriter is closed!") and changes nothing.
C11_ClosedRejected ==
  [][/\ \A h \in Objects, arrays \in Batches, sp \in StartPositions :
          (last'.op = "write" /\ objs[h].is_closed = "yes" /\ Write(h, arrays, sp)) =>
             (last'.res = "RuntimeError_closed" /\ UNCHANGED store)
     /\ \A h \in Objects :
          (last'.op = "flush" /\ objs[h].is_closed = "yes" /\ Flush(h)) =>
             (last'.res = "RuntimeError_closed" /\ UNCHANGED store)]_vars

\* C11 for write alone
C11_ClosedWriteRejected ==
  [][\A h \in Objects, arrays \in Batches, sp \in StartPositions :
          (last'.op = "write" /\ objs[h].is_closed = "yes" /\ Write(h, arrays, sp)) =>
             (last'.res = "RuntimeError_closed" /\ UNCHANGED store)]_vars

\* --------------------------------------------------------------- C12
\* C12: _INSTANCES_WRITER never has more than MAX_OPEN_MMAP entries, and a
\* constructor call that would add one more raises RuntimeError.
C12_Ceiling ==
  /\ Cardinality(registry) <= MAX_OPEN_MMAP
  /\ (last.op = "open" /\ last.res = "RuntimeError") => Cardinality(registry) = MAX_OPEN_MMAP

\* the ceiling the code keeps
C12_CeilingPlusOne ==
  /\ Cardinality(registry) <= MAX_OPEN_MMAP + 1
  /\ (last.op = "open" /\ last.res = "RuntimeError")
        => Cardinality(registry) = MAX_OPEN_MMAP + 1

\* --------------------------------------------------------------- C13
\* C13: the data offset is the smallest multiple of the item size that is at
\* least 8 + 8 + 486 = 502, at the open and at every _resize alike.
C13_AlignedOffset ==
  LET w == aligned.itemsize
      ok(x) == x % w = 0 /\ x >= 502 /\ x - w < 502
  IN /\ aligned.at_open # 0 => ok(aligned.at_open)
     /\ aligned.at_resize # 0 => (ok(aligned.at_resize) /\ aligned.at_resize = aligned.at_open)

C13_Witness ==
  /\ aligned.itemsize = 16 /\ aligned.at_open = 512 /\ aligned.at_resize = 512
  /\ aligned.rows >= 2

\* ---- the named index
\* the rows of the blocks before the i-th
Before(accepted, i) == SumRows(SubSeq(accepted, 1, i - 1))

\* the start position a write resolves to
Resolved(h, sp) == IF sp = Absent THEN objs[h].start_position ELSE sp[1]

LastPath == objs[last.h].path

Flushed(h) ==
  /\ objs[h].is_closed = "no"
  /\ last'.op \in {"flush", "close"} /\ last'.h = h /\ last'.res = "ok"

FileLength(st, p) == Len(st.disk[st.fs[p]].body)

C18_NoLostUpdate ==
  \A k \in Keys : PROXY_DICT[SharedPath].d[k] = sh.latest[k]

\* three merges of which the second gave both keys and the third one of
\* them again; a holder has been disposed of
C18_Witness ==
  /\ sh.merges = 3
  /\ {NoKeys,
      [k \in Keys |-> IF k = "a" THEN Range(0, 1) ELSE Absent],
      [k \in Keys |-> IF k = "a" THEN Range(2, 3) ELSE Range(3, 4)],
      [k \in Keys |-> IF k = "a" THEN Range(2, 3) ELSE Range(1, 2)]} = sh.past
  /\ PROXY_DICT[SharedPath].d = [k \in Keys |-> IF k = "a" THEN Range(2, 3) ELSE Range(1, 2)]
  /\ \E p \in Holders : sh.at[p].pc = "disposed"
  /\ \E p \in Holders : sh.at[p].pc = "items"

\* C19: every update of the shared index and every read of it for a flush
\* is inside one lock common to all its holders: no holder updates while
\* another reads for its flush, and the mapping in a trailer is the mapping
\* as it was at one instant.
C19_ReadUnderLock ==
  /\ \A p, q \in Holders :
        (p # q /\ sh.at[p].pc \in {"values", "dict", "items"}) => sh.at[q].pc # "update"
  /\ sh.written # <<>> =>
        loads(SubSeq(sh.written, 1, Len(sh.written) - 1)).d \in sh.past

\* ---- the worker pool
\* C20: worker processes that each write their arrays at a start position
\* of their own, the row ranges not overlapping, into one file made with all
\* the rows, leave under every interleaving a file in which the range of
\* each worker holds that worker's rows and every other row is as it was.
C20_DisjointWriters ==
  (\A w \in Workers : wk.at[w].pc = "done") =>
     \E r \in {MmapArray(St, WorkerPath)} :
        /\ r.res = "ok" /\ r.rows = MaxRows
        /\ \A w \in Workers :
              SubSeq(r.data, wk.jobs[w].start + 1,
                     wk.jobs[w].start + SumRows(Accepted(wk.jobs[w].arrays, "t5")))
                = RowsOf(wk.jobs[w].arrays, "t5")
        /\ \A i \in 1..MaxRows :
              (\A w \in Workers : i \notin JobRange(wk.jobs[w])) => r.data[i] = 0

\* two workers are done, one with two rows and the other with the row below
C20_Witness ==
  /\ \A w \in Workers : wk.at[w].pc = "done"
  /\ wk.jobs[1].start = 1 /\ wk.jobs[1].arrays = <<Block("t5", <<2, 1>>)>>
  /\ wk.jobs[2].start = 0 /\ wk.jobs[2].arrays = <<Block("t8", <<2>>), Block("t5", <<2>>)>>
  /\ MmapArray(St, WorkerPath).data = <<2, 2, 1>>
C21_TransferSharesIndex ==
  (last.op = "flush" /\ last.res = "ok") =>
     \E r \in {PointerArray(St, TransferPath)} :
        /\ r.res = "ok"
        /\ r.indices = PROXY_DICT[TransferPath].d
        /\ \A k \in Keys : tr.block[k] # Absent => r.indices[k] # Absent
IsFile(f) == f.dtype # None

\* the call of this step made a new file: a constructor call that found no
\* file at the path, or removed the one it found
CreatedNow ==
  /\ last'.op = "open" /\ last'.res = "ok"
  /\ \E p \in Paths : sess'[p].h = last'.h /\ sess'[p].state = "live" /\ sess'[p].fresh

RECURSIVE TrailersOnly(_)
TrailersOnly(tail) ==
  \/ tail = <<>>
  \/ LET n == Len(tail)
         size == tail[n]
     IN /\ size \in 1..(n - 1)
        /\ loads(SubSeq(tail, n - size, n - 1)).res = "ok"
        /\ TrailersOnly(SubSeq(tail, 1, n - size - 1))

C27_FailedOpenClean ==
  /\ \A p \in Paths : INSTANCES_WRITER[p] # 0 =>
        objs[INSTANCES_WRITER[p]].is_closed = "no"
  /\ (last.op = "open" /\ last.res = "Exception") =>
        \A p \in StorePaths : fs[p] = 0 /\ INSTANCES_WRITER[p] = 0
  /\ last.op = "open" => last.res # "AttributeError"

\* C28: whatever the order of the steps of the processes, no open empties a
\* file that has content, no process fails, and once all are done the file
\* holds the rows of every process at their positions.
C28_EveryRowKept ==
  /\ ~pr.truncated
  /\ \A w \in Workers : pr.at[w].pc \notin {"ValueError", "SIGBUS", "resize"}
  /\ (\A w \in Workers : pr.at[w].pc = "done") =>
        \A w \in Workers : \A i \in 1..JobRows :
           /\ Len(pr.file.body) >= job_start(w) + i
           /\ pr.file.body[job_start(w) + i] = job_array(w)[i]

\* the rows the header of the file at p counts
HeaderRows(p) == IF fs[p] = 0 THEN 0 ELSE disk[fs[p]].rows

\* every range of the mapping d lies within the rows of the file at p
Within(d, p) ==
  \A k \in Keys : d[k] # Absent =>
     0 <= d[k][1] /\ d[k][1] <= d[k][2] /\ d[k][2] <= HeaderRows(p)

====
